---- MODULE Spec2Model ----
(***************************************************************************)
(* Reconciliation core of the source controller: the HelmChart,            *)
(* HelmRepository (type OCI) and OCIRepository reconcilers, the artifact   *)
(* storage they write to and the upstream they read from.                  *)
(*                                                                         *)
(* One object is reconciled per behaviour; its kind is chosen in Init.     *)
(* A reconciliation is a sequence of steps (pc): Reconcile's entry, the    *)
(* prologue of reconcile, the storage, source and artifact phases, the     *)
(* loop of reconcile that dispatches on each phase's result, notify, and   *)
(* the deferred summary and patch.  The user, the upstream and the file    *)
(* system act between reconciliations.                                     *)
(***************************************************************************)
EXTENDS Integers, Sequences, FiniteSets, TLC

VARIABLES
    kind,       \* kind of the reconciled object
    api,        \* the object as persisted by the API server
    obj,        \* the in-memory object of the running reconciliation
    start,      \* the object as fetched (oldObj of reconcile)
    pc,         \* position of the running reconciliation
    last,       \* the phase that returned last
    phaseRes,   \* recResult returned by the last phase
    phaseErr,   \* err returned by the last phase
    res,        \* res of reconcile / recResult of Reconcile
    resErr,     \* resErr of reconcile / retErr of Reconcile
    retErr,     \* the error Reconcile finally returns
    build,      \* chart.Build (HelmChart) or metadata and dir (OCIRepository)
    ran,        \* the phases executed in this reconciliation, and the
                \* verification and registry requests they made
    events,     \* reasons (and types, for Ready events) of the events emitted
    wrote,      \* paths written to storage in this reconciliation
    exit,       \* the branch Reconcile took
    artifactMissing, \* artifactMissing of reconcileStorage
    files,      \* the object's directory in storage, oldest file first
    up,         \* upstream: the revision on offer and the source's state
    stable,     \* the previous reconciliation succeeded and no input changed since
    faults,     \* failures injected so far
    wk,         \* concurrent archive steps: each worker's position
    locks,      \* concurrent archive steps: holder of each artifact's lock
    call        \* a call of a helper of the OCIRepository reconciler:
                \* its arguments, what the registry and the cluster answer,
                \* and what it returned

vars == <<kind, api, obj, start, pc, last, phaseRes, phaseErr, res, resErr,
          retErr, build, ran, events, wrote, exit, artifactMissing, files,
          up, stable, faults, wk, locks, call>>

runVars == <<obj, start, pc, last, phaseRes, phaseErr, res, resErr, retErr,
             build, ran, events, wrote, exit, artifactMissing>>

concVars == <<wk, locks>>

-----------------------------------------------------------------------------
(* Bounds *)

\* generations a user edit can reach
MaxGen == 3

\* failures of the API server, the storage and the upstream in one behaviour
MaxFaults == 1

\* concurrent executions of the archive step
MaxWorkers == 2

Workers == 1 .. MaxWorkers

\* objects the workers reconcile; key 1 is the object of this model
MaxKeys == 2

Keys == 1 .. MaxKeys

\* upstream revisions on offer: 1..MaxRev
MaxRev == 3

Revs == 1 .. MaxRev

\* values of the reconcile.fluxcd.io/requestedAt annotation; "" is no annotation
Tokens == {"", "t1"}

Kinds == {"HelmChart", "OCIRepository", "HelmRepository"}

-----------------------------------------------------------------------------
(* Results and errors *)

ResultEmpty == "Empty"

ResultRequeue == "Requeue"

ResultSuccess == "Success"

Results == {ResultEmpty, ResultRequeue, ResultSuccess}

NoErr == [type |-> "nil", reason |-> ""]

\* serror.Event / serror.Generic: a failure that is retried
Generic(reason) == [type |-> "Generic", reason |-> reason]

\* serror.Stalling: a failure that only a change of the object resolves
Stalling(reason) == [type |-> "Stalling", reason |-> reason]

\* an error of the Kubernetes client (a failed patch)
PatchErr == [type |-> "Other", reason |-> "PatchFailed"]

-----------------------------------------------------------------------------
(* Conditions *)

Ready == "Ready"

Reconciling == "Reconciling"

Stalled == "Stalled"

StorageOperationFailed == "StorageOperationFailed"

FetchFailed == "FetchFailed"

BuildFailed == "BuildFailed"

ArtifactOutdated == "ArtifactOutdated"

ArtifactInStorage == "ArtifactInStorage"

SourceVerified == "SourceVerified"

CondTypes == {Ready, Reconciling, Stalled, StorageOperationFailed, FetchFailed,
              BuildFailed, ArtifactOutdated, ArtifactInStorage, SourceVerified}

NoCond == [status |-> "Absent", reason |-> ""]

NoConds == [t \in CondTypes |-> NoCond]

IsTrue(o, t) == o.conds[t].status = "True"

IsFalse(o, t) == o.conds[t].status = "False"

Has(o, t) == o.conds[t].status # "Absent"

Delete(o, t) == [o EXCEPT !.conds[t] = NoCond]

SetCond(o, t, s, r) == [o EXCEPT !.conds[t] = [status |-> s, reason |-> r]]

MarkTrue(o, t, r) == SetCond(o, t, "True", r)

MarkFalse(o, t, r) == SetCond(o, t, "False", r)

MarkUnknown(o, t, r) == SetCond(o, t, "Unknown", r)

\* conditions.MarkReconciling removes Stalled
MarkReconciling(o, r) == MarkTrue(Delete(o, Stalled), Reconciling, r)

\* conditions.MarkStalled removes Reconciling
MarkStalled(o, r) == MarkTrue(Delete(o, Reconciling), Stalled, r)

IsReady(o) == IsTrue(o, Ready)

IsStalled(o) == IsTrue(o, Stalled)

IsReconciling(o) == IsTrue(o, Reconciling)

\* rreconcile.ProgressiveStatus: Reconciling=True; Ready becomes Unknown on a
\* drift, or when Ready is not set or already Unknown
ProgressiveStatus(drift, o, r) ==
    LET o1 == MarkReconciling(o, r)
    IN  IF drift \/ ~Has(o, Ready) \/ o.conds[Ready].status = "Unknown"
        THEN MarkUnknown(o1, Ready, r)
        ELSE o1

-----------------------------------------------------------------------------
(* Objects *)

NoArtifact == [revision |-> 0, path |-> 0, checksum |-> <<0, 0>>]

NewObject(suspend) ==
    [ finalizer          |-> FALSE,
      otherFinalizers    |-> FALSE,
      deleting           |-> FALSE,
      suspend            |-> suspend,
      generation         |-> 1,
      requestedAt        |-> "",
      urlValid           |-> TRUE,
      typeOCI            |-> TRUE,
      verify             |-> FALSE,
      insecure           |-> FALSE,
      verifiedGeneration |-> 0,
      ignore             |-> 0,
      layerSelector      |-> 0,
      observedGeneration |-> 0,
      lastHandledReconcileAt |-> "",
      artifact           |-> NoArtifact,
      url                |-> "",
      observedChartName  |-> "",
      observedIgnore     |-> 0,
      observedLayerSelector |-> 0,
      conds              |-> NoConds ]

GetArtifact(o) == o.artifact

HasArtifact(o) == o.artifact # NoArtifact

\* Artifact.HasRevision: false for a nil artifact
HasRevision(o, rev) == HasArtifact(o) /\ o.artifact.revision = rev

\* the object is gone from the API server once it is under deletion and
\* carries no finalizer, neither the source finalizer nor one of another
\* controller
Exists(o) == ~(o.deleting /\ ~o.finalizer /\ ~o.otherFinalizers)

Status(o) ==
    [ observedGeneration |-> o.observedGeneration,
      lastHandledReconcileAt |-> o.lastHandledReconcileAt,
      artifact |-> o.artifact,
      conds |-> o.conds ]

-----------------------------------------------------------------------------
(* Upstream and chart build *)

\* the bytes behind a revision: distinct OCI digests can carry the same layer
ContentOf(rev) == (rev + 1) \div 2

\* the checksum of the artifact produced for a revision: the archive of an
\* OCIRepository depends on the ignore rules and on the selected layer
ChecksumFor(k, o, rev) ==
    IF k = "OCIRepository"
    THEN <<ContentOf(rev), o.ignore + 2 * o.layerSelector>>
    ELSE <<rev, 0>>

ChartName == "chart"

NoBuild == [name |-> "", version |-> 0, path |-> 0, packaged |-> FALSE]

\* chart.Build.HasMetadata
HasMetadata(b) == b.name # "" /\ b.version # 0

\* chart.Build.Complete
Complete(b) == b.path # 0 /\ HasMetadata(b)

-----------------------------------------------------------------------------
(* Storage *)

\* artifacts retained by garbage collection besides the current one
ArtifactRetentionRecords == 2

NoFile == [path |-> 0, sum |-> <<0, 0>>]

Paths(fs) == {fs[i].path : i \in 1 .. Len(fs)}

FileAt(fs, p) ==
    IF p \in Paths(fs) THEN fs[CHOOSE i \in 1 .. Len(fs) : fs[i].path = p]
    ELSE NoFile

\* Storage.LocalPath: one artifact path per revision
LocalPath(a) == a.path

\* Storage.NewArtifactFor
NewArtifactFor(rev) == [revision |-> rev, path |-> rev, checksum |-> <<0, 0>>]

\* Storage.ArtifactExist
ArtifactExist(fs, a) == LocalPath(a) \in Paths(fs)

\* Storage.CopyFromPath / Storage.Archive: the file is written under a
\* temporary name and renamed over the artifact path
WriteFile(fs, p, sum) ==
    Append(SelectSeq(fs, LAMBDA f : f.path # p),
           [path |-> p, sum |-> sum])

\* Storage.RemoveAll
RemoveAll(fs) == <<>>

\* the files Storage.GarbageCollect keeps when the old oldest files are
\* beyond the TTL: the current artifact, and the files within the TTL that
\* are among the newest ArtifactRetentionRecords
Retained(fs, cur, old) ==
    {fs[i].path : i \in {j \in 1 .. Len(fs) :
        \/ fs[j].path = cur
        \/ (j > old /\ Len(fs) - j < ArtifactRetentionRecords)}}

GarbageCollect(fs, a, old) ==
    SelectSeq(fs, LAMBDA f : f.path \in Retained(fs, LocalPath(a), old))

-----------------------------------------------------------------------------
(* Initial state *)

Idle == pc = "idle"

IdleWorker == [pc |-> "idle", key |-> 0, rev |-> 0]

\* a step in which a failure is injected spends one of the MaxFaults
Fault(failed) ==
    /\ (failed => faults < MaxFaults)
    /\ faults' = IF failed THEN faults + 1 ELSE faults

ResetRun ==
    /\ pc' = "idle"
    /\ obj' = api'
    /\ start' = api'
    /\ last' = "none"
    /\ phaseRes' = ResultEmpty
    /\ phaseErr' = NoErr
    /\ res' = ResultEmpty
    /\ resErr' = NoErr
    /\ retErr' = NoErr
    /\ build' = NoBuild
    /\ ran' = {}
    /\ events' = {}
    /\ wrote' = {}
    /\ exit' = "none"
    /\ artifactMissing' = FALSE

\* no helper is being called
NoCall == [fn |-> "none"]

\* one of the given objects, its storage and its upstream after
\* construction
InitWith(objects) ==
    /\ kind \in Kinds
    /\ api \in objects
    /\ obj = api
    /\ start = api
    /\ pc = "idle"
    /\ last = "none"
    /\ phaseRes = ResultEmpty
    /\ phaseErr = NoErr
    /\ res = ResultEmpty
    /\ resErr = NoErr
    /\ retErr = NoErr
    /\ build = NoBuild
    /\ ran = {}
    /\ events = {}
    /\ wrote = {}
    /\ exit = "none"
    /\ artifactMissing = FALSE
    /\ files = <<>>
    /\ up \in [rev : {1}, ready : {TRUE}, oci : BOOLEAN]
    /\ (kind # "HelmChart" => ~up.oci)
    /\ stable = FALSE
    /\ faults = 0
    /\ wk = [w \in Workers |-> IdleWorker]
    /\ locks = {}

InitReconciler == InitWith({NewObject(s) : s \in BOOLEAN})

Init ==
    /\ InitReconciler
    /\ call = NoCall

-----------------------------------------------------------------------------
(* Reconcile: the entry of a reconciliation *)

Reconciled == kind \in {"HelmChart", "OCIRepository"}

ReconcileUnguarded ==
    /\ Idle
    /\ Exists(api)
    /\ start' = api
    /\ IF ~api.finalizer
       THEN /\ obj' = [api EXCEPT !.finalizer = TRUE]
            /\ res' = ResultRequeue
            /\ exit' = "finalizer"
            /\ pc' = "summarize"
       ELSE IF api.deleting
       THEN /\ obj' = api
            /\ res' = ResultEmpty
            /\ exit' = "delete"
            /\ pc' = "delete"
       ELSE /\ obj' = api
            /\ res' = ResultEmpty
            /\ exit' = "reconcile"
            /\ pc' = "begin"
    /\ resErr' = NoErr
    /\ UNCHANGED <<kind, api, last, phaseRes, phaseErr, retErr, build, ran,
                   events, wrote, artifactMissing, files, up, stable, faults, concVars, call>>

\* Reconcile up to the call of reconcile: the object is fetched, then the
\* finalizer is added, or the deletion is handled, or a suspended object is
\* left alone, or the object is reconciled
Reconcile ==
    /\ Idle
    /\ Exists(api)
    /\ start' = api
    /\ IF ~api.finalizer
       THEN /\ obj' = [api EXCEPT !.finalizer = TRUE]
            /\ res' = ResultRequeue
            /\ exit' = "finalizer"
            /\ pc' = "summarize"
       ELSE IF api.deleting
       THEN /\ obj' = api
            /\ res' = ResultEmpty
            /\ exit' = "delete"
            /\ pc' = "delete"
       ELSE IF api.suspend
       THEN /\ obj' = api
            /\ res' = ResultEmpty
            /\ exit' = "suspend"
            /\ pc' = "summarize"
       ELSE /\ obj' = api
            /\ res' = ResultEmpty
            /\ exit' = "reconcile"
            /\ pc' = "begin"
    /\ resErr' = NoErr
    /\ UNCHANGED <<kind, api, last, phaseRes, phaseErr, retErr, build, ran,
                   events, wrote, artifactMissing, files, up, stable, faults, concVars, call>>

HelmChart_Reconcile == kind = "HelmChart" /\ Reconcile

OCIRepository_Reconcile == kind = "OCIRepository" /\ Reconcile

DeletedObjectAlways(o, removed) ==
    [o EXCEPT !.artifact = NoArtifact, !.finalizer = FALSE]

\* the object reconcileDelete leaves: once Storage.RemoveAll succeeded the
\* artifact is dropped from the status and the finalizer is removed
DeletedObject(o, removed) ==
    IF removed
    THEN [o EXCEPT !.artifact = NoArtifact, !.finalizer = FALSE]
    ELSE o

\* reconcileDelete, with garbageCollect of an object under deletion
reconcileDelete ==
    /\ pc = "delete"
    /\ \E removed \in BOOLEAN :
        /\ Fault(~removed)
        /\ obj' = DeletedObject(obj, removed)
        /\ IF removed
           THEN /\ files' = RemoveAll(files)
                /\ resErr' = NoErr
                /\ events' = IF files # <<>>
                             THEN events \cup {"GarbageCollectionSucceeded"}
                             ELSE events
           ELSE /\ files' \in {files} \cup
                              (IF files # <<>> THEN {Tail(files)} ELSE {})
                /\ resErr' = Generic("GarbageCollectionFailed")
                /\ events' = events
    /\ res' = ResultEmpty
    /\ pc' = "summarize"
    /\ UNCHANGED <<kind, api, start, last, phaseRes, phaseErr, retErr, build,
                   ran, wrote, exit, artifactMissing, up, stable, concVars, call>>

HelmChart_reconcileDelete == kind = "HelmChart" /\ reconcileDelete

OCIRepository_reconcileDelete == kind = "OCIRepository" /\ reconcileDelete

-----------------------------------------------------------------------------
(* reconcile: prologue, loop over the phases, notify *)

\* the object after the prologue of reconcile, before its patch
Progressing(o) ==
    LET o1 == ProgressiveStatus(FALSE, o, "Progressing")
    IN  IF o.generation # o.observedGeneration
        THEN ProgressiveStatus(FALSE, o1, "Progressing")
        ELSE o1

PersistsAlways(o) == TRUE

\* the prologue patches when the generation differs or a reconciliation is
\* requested
PersistsReconciling(o) ==
    \/ o.generation # o.observedGeneration
    \/ o.requestedAt # o.lastHandledReconcileAt

\* reconcile up to its loop; a failed patch, or for an OCIRepository a
\* failure to create the working directory, ends the reconciliation
reconcile ==
    /\ pc = "begin"
    /\ \E patchOK \in BOOLEAN, tmpOK \in BOOLEAN :
        LET o1 == Progressing(obj) IN
        /\ (~PersistsReconciling(obj) => patchOK)
        /\ (kind # "OCIRepository" => tmpOK)
        /\ (~patchOK => tmpOK)
        /\ Fault(~patchOK \/ ~tmpOK)
        /\ api' = IF PersistsReconciling(obj) /\ patchOK THEN o1 ELSE api
        /\ IF ~patchOK
           THEN /\ obj' = o1
                /\ resErr' = PatchErr
                /\ pc' = "summarize"
           ELSE IF ~tmpOK
           THEN /\ obj' = MarkTrue(o1, StorageOperationFailed, "DirCreationFailed")
                /\ resErr' = Generic("DirCreationFailed")
                /\ pc' = "summarize"
           ELSE /\ obj' = IF kind = "OCIRepository"
                          THEN Delete(o1, StorageOperationFailed)
                          ELSE o1
                /\ resErr' = NoErr
                /\ pc' = "storage"
    /\ res' = ResultEmpty
    /\ UNCHANGED <<kind, start, last, phaseRes, phaseErr, retErr, build, ran,
                   events, wrote, exit, artifactMissing, files, up, stable,
                   concVars, call>>

HelmChart_reconcile == kind = "HelmChart" /\ reconcile

OCIRepository_reconcile == kind = "OCIRepository" /\ reconcile

LoopStepKeepErr(acc, r, e) ==
    [res |-> r, err |-> e, next |-> IF e # NoErr THEN "break" ELSE "continue"]

\* sreconcile.LowestRequeuingResult
LowestRequeuingResult(i, j) ==
    IF i = ResultEmpty THEN j
    ELSE IF j = ResultEmpty THEN i
    ELSE IF i = ResultRequeue THEN i
    ELSE IF j = ResultRequeue THEN j
    ELSE j

LoopStepFoldRequeue(acc, r, e) ==
    IF e # NoErr
    THEN [res |-> r, err |-> e, next |-> "break"]
    ELSE [res |-> LowestRequeuingResult(acc, r), err |-> NoErr,
          next |-> "continue"]

LoopStepIgnoreErr(acc, r, e) ==
    IF r = ResultRequeue
    THEN [res |-> ResultRequeue, err |-> NoErr, next |-> "return"]
    ELSE [res |-> LowestRequeuingResult(acc, r), err |-> e,
          next |-> "continue"]

\* the body of the loop of reconcile after a phase returned (r, e): return
\* on ResultRequeue, break on an error, else fold the result and continue
LoopStep(acc, r, e) ==
    IF r = ResultRequeue
    THEN [res |-> ResultRequeue, err |-> NoErr, next |-> "return"]
    ELSE IF e # NoErr
    THEN [res |-> r, err |-> e, next |-> "break"]
    ELSE [res |-> LowestRequeuingResult(acc, r), err |-> NoErr,
          next |-> "continue"]

NextPhase(p) ==
    IF p = "storage" THEN "source"
    ELSE IF p = "source" THEN "artifact"
    ELSE "notify"

reconcileLoop ==
    /\ pc = "loop"
    /\ LET step == LoopStep(res, phaseRes, phaseErr) IN
        /\ res' = step.res
        /\ resErr' = step.err
        /\ pc' = IF step.next = "return" THEN "summarize"
                 ELSE IF step.next = "break" THEN "notify"
                 ELSE NextPhase(last)
    /\ UNCHANGED <<kind, api, obj, start, last, phaseRes, phaseErr, retErr,
                   build, ran, events, wrote, exit, artifactMissing, files,
                   up, stable, faults, concVars, call>>

HelmChart_reconcileLoop == kind = "HelmChart" /\ reconcileLoop

OCIRepository_reconcileLoop == kind = "OCIRepository" /\ reconcileLoop

-----------------------------------------------------------------------------
(* reconcileStorage *)

StorageObjectKeep(o, fs) == o

StorageObjectStale(o, fs) ==
    IF ~HasArtifact(o)
    THEN Delete(ProgressiveStatus(TRUE, o, "Progressing"), ArtifactInStorage)
    ELSE IF ~ArtifactExist(fs, o.artifact)
    THEN Delete(ProgressiveStatus(TRUE, o, "Progressing"), ArtifactInStorage)
    ELSE o

\* the object reconcileStorage leaves, given the storage after its garbage
\* collection: an advertised artifact whose file is gone is removed from the
\* status; an object without artifact is marked Reconciling
StorageObject(o, fs) ==
    LET missing == HasArtifact(o) /\ ~ArtifactExist(fs, o.artifact)
        o1 == IF missing
              THEN Delete([o EXCEPT !.artifact = NoArtifact, !.url = ""],
                          ArtifactInStorage)
              ELSE o
    IN  IF ~HasArtifact(o1)
        THEN Delete(ProgressiveStatus(TRUE, o1, "Progressing"), ArtifactInStorage)
        ELSE o1

\* garbageCollect of an object that is not under deletion: its error is
\* ignored by reconcileStorage
garbageCollect(o, fs, gcOK, old) ==
    IF HasArtifact(o) /\ gcOK THEN GarbageCollect(fs, o.artifact, old) ELSE fs

reconcileStorage ==
    /\ pc = "storage"
    /\ \E gcOK \in BOOLEAN, old \in 0 .. Len(files), patchOK \in BOOLEAN :
        LET fs == garbageCollect(obj, files, gcOK, old)
            o1 == StorageObject(obj, fs)
        IN
        /\ (~HasArtifact(obj) => gcOK)
        /\ (~(HasArtifact(obj) /\ gcOK) => old = 0)
        /\ (HasArtifact(o1) => patchOK)
        /\ Fault(~gcOK \/ ~patchOK)
        /\ files' = fs
        /\ events' = IF fs # files
                     THEN events \cup {"GarbageCollectionSucceeded"}
                     ELSE events
        /\ artifactMissing' = (HasArtifact(obj) /\ ~ArtifactExist(fs, obj.artifact))
        /\ obj' = o1
        /\ api' = IF ~HasArtifact(o1) /\ patchOK THEN o1 ELSE api
        /\ phaseRes' = IF patchOK THEN ResultSuccess ELSE ResultEmpty
        /\ phaseErr' = IF patchOK THEN NoErr ELSE PatchErr
    /\ last' = "storage"
    /\ ran' = ran \cup {"storage"}
    /\ pc' = "loop"
    /\ UNCHANGED <<kind, start, res, resErr, retErr, build, wrote, exit, up,
                   stable, concVars, call>>

HelmChart_reconcileStorage == kind = "HelmChart" /\ reconcileStorage

OCIRepository_reconcileStorage == kind = "OCIRepository" /\ reconcileStorage

-----------------------------------------------------------------------------
(* reconcileSource of the HelmChart reconciler *)

\* the path of a chart packaged in the working directory, outside storage
TmpPath == MaxRev + 1

\* chart.BuildError
BuildError(reason) == [type |-> "BuildError", reason |-> reason]

\* chart.IsPersistentBuildErrorReason
IsPersistentBuildErrorReason(reason) ==
    reason \in {"InvalidChartReference", "MetadataPatchError", "ValuesFilesError"}

\* what can happen to the retrieval of the source and the build of the chart
ChartOutcomes == {"getErr", "unsupported", "auth", "pull", "values", "ok"}

\* the chart builder: the cached chart in storage is reused when the build
\* is not forced and the cached chart has the requested name and version
ChartBuild(o, fs, u, oc) ==
    LET cached == IF HasArtifact(o) THEN LocalPath(o.artifact) ELSE 0
        force == o.generation # o.observedGeneration
        reuse == /\ cached # 0
                 /\ ~force
                 /\ cached \in Paths(fs)
                 /\ o.artifact.revision = u.rev
    IN  IF oc \in {"pull", "values"}
        THEN [name |-> ChartName, version |-> u.rev, path |-> 0,
              packaged |-> FALSE]
        ELSE IF oc = "ok"
        THEN [name |-> ChartName, version |-> u.rev,
              path |-> IF reuse THEN cached ELSE TmpPath,
              packaged |-> ~reuse /\ ~u.oci]
        ELSE NoBuild

\* the error the build of the chart returns
ChartBuildErr(oc) ==
    IF oc = "auth" THEN Generic("AuthenticationFailed")
    ELSE IF oc = "pull" THEN BuildError("ChartPullError")
    ELSE IF oc = "values" THEN BuildError("ValuesFilesError")
    ELSE NoErr

\* observeChartBuild up to its patch: a build for another chart or version
\* than the one in the status marks the artifact outdated
ObservedDrift(o, b) ==
    /\ HasMetadata(b)
    /\ (b.name # o.observedChartName \/ ~HasRevision(o, b.version))

ObserveDrift(o, b) ==
    IF ObservedDrift(o, b)
    THEN ProgressiveStatus(TRUE,
            IF HasArtifact(o) THEN MarkTrue(o, ArtifactOutdated, "NewChart") ELSE o,
            "Progressing")
    ELSE o

\* observeChartBuild after its patch
observeChartBuild(o, b, err) ==
    LET o1 == IF Complete(b)
              THEN MarkTrue(Delete(Delete(o, FetchFailed), BuildFailed),
                            SourceVerified, "Succeeded")
              ELSE o
        o2 == IF ~o.verify THEN Delete(o1, SourceVerified) ELSE o1
        reason == IF err.type = "BuildError" THEN err.reason ELSE "Unknown"
    IN  IF err = NoErr THEN o2
        ELSE IF reason \in {"MetadataPatchError", "ValuesFilesError",
                            "DependencyBuildError", "ChartPackageError"}
        THEN MarkTrue(Delete(o2, FetchFailed), BuildFailed, reason)
        ELSE IF reason = "ChartVerificationError"
        THEN MarkFalse(MarkTrue(Delete(o2, FetchFailed), BuildFailed, reason),
                       SourceVerified, "VerificationError")
        ELSE MarkTrue(Delete(o2, BuildFailed), FetchFailed, reason)

\* the error reconcileSource returns for the error of the build
SourceErr(err) ==
    IF err.type = "BuildError"
    THEN IF IsPersistentBuildErrorReason(err.reason)
         THEN Stalling(err.reason)
         ELSE Generic(err.reason)
    ELSE err

\* reconcileSource: the object and build it leaves, what it returns, and the
\* object it patched on a drift
HelmChartSource(o, fs, u, oc) ==
    LET o0 == IF IsFalse(o, SourceVerified) THEN Delete(o, SourceVerified) ELSE o
        b == ChartBuild(o0, fs, u, oc)
        e == ChartBuildErr(oc)
        o1 == IF oc = "auth" THEN MarkTrue(o0, FetchFailed, e.reason) ELSE o0
        o2 == ObserveDrift(o1, b)
    IN  IF oc \in {"getErr", "unsupported"}
        THEN [obj |-> MarkTrue(o0, FetchFailed, "SourceUnavailable"),
              res |-> ResultEmpty,
              err |-> IF oc = "unsupported"
                      THEN Stalling("UnsupportedSourceKind")
                      ELSE Generic("SourceUnavailable"),
              build |-> NoBuild, patched |-> FALSE, atPatch |-> o0,
              events |-> {}]
        ELSE IF ~u.ready /\ ~u.oci
        THEN [obj |-> MarkTrue(o0, FetchFailed, "NoSourceArtifact"),
              res |-> ResultRequeue, err |-> NoErr,
              build |-> NoBuild, patched |-> FALSE, atPatch |-> o0,
              events |-> {"NoSourceArtifact"}]
        ELSE [obj |-> observeChartBuild(o2, b, e),
              res |-> IF e = NoErr THEN ResultSuccess ELSE ResultEmpty,
              err |-> SourceErr(e),
              build |-> b, patched |-> ObservedDrift(o1, b), atPatch |-> o2,
              events |-> {}]

HelmChart_reconcileSource ==
    /\ pc = "source"
    /\ kind = "HelmChart"
    /\ \E oc \in ChartOutcomes, patchOK \in BOOLEAN :
        LET r == HelmChartSource(obj, files, up, oc) IN
        /\ (~r.patched => patchOK)
        /\ Fault(oc # "ok" \/ ~patchOK)
        /\ obj' = r.obj
        /\ build' = r.build
        /\ phaseRes' = r.res
        /\ phaseErr' = r.err
        /\ events' = events \cup r.events
        /\ api' = IF r.patched /\ patchOK THEN r.atPatch ELSE api
    /\ last' = "source"
    /\ ran' = ran \cup {"source"}
    /\ pc' = "loop"
    /\ UNCHANGED <<kind, start, res, resErr, retErr, wrote, exit,
                   artifactMissing, files, up, stable, concVars, call>>

-----------------------------------------------------------------------------
(* reconcileSource of the OCIRepository reconciler *)

\* layerSelectorEqual: both nil (0) or both the same value
layerSelectorEqual(a, b) ==
    IF (a = 0) # (b = 0) THEN FALSE
    ELSE IF a = 0 THEN TRUE
    ELSE a = b

\* a comparison of the content configuration that looks at the ignore rules
\* alone
ociContentConfigChangedIgnoreOnly(o) == o.ignore # o.observedIgnore

\* ociContentConfigChanged
ociContentConfigChanged(o) ==
    IF o.ignore # o.observedIgnore THEN TRUE
    ELSE IF ~layerSelectorEqual(o.layerSelector, o.observedLayerSelector) THEN TRUE
    ELSE FALSE

\* what can happen to the retrieval of the upstream artifact
\* the outcome of the credential steps is a failure: an error of the
\* secret, of the login options, of the transport or of the cloud provider
\* login, except the error of an unconfigured provider
IsAuthFailure(oc) == oc = "auth"

OCIOutcomes == {"auth", "unconfigured", "tag", "digest", "pull", "ok"}

\* the deferred observation of the revision, up to its patch
ObserveRevision(o, rev) ==
    IF ~HasRevision(o, rev)
    THEN ProgressiveStatus(TRUE,
            IF HasArtifact(o) THEN MarkTrue(o, ArtifactOutdated, "NewRevision") ELSE o,
            "Progressing")
    ELSE o

OCIFail(o, e) ==
    [obj |-> MarkTrue(o, FetchFailed, e.reason), res |-> ResultEmpty, err |-> e,
     build |-> NoBuild, patched |-> FALSE, checked |-> FALSE,
     steps |-> {}]

\* the SourceVerified condition is set: it observes the generation
MarkVerified(o, status, reason) ==
    [SetCond(o, SourceVerified, status, reason) EXCEPT
        !.verifiedGeneration = o.generation]

\* the SourceVerified condition is deleted: it observes no generation
DeleteVerified(o) == [Delete(o, SourceVerified) EXCEPT !.verifiedGeneration = 0]

MustVerifyNever(o, rev) == FALSE

\* the artifact is to be verified: its revision is new, the condition did
\* not observe this generation, or the last verification failed
MustVerify(o, rev) ==
    \/ ~HasRevision(o, rev)
    \/ o.verifiedGeneration # o.generation
    \/ IsFalse(o, SourceVerified)

OCIRepositorySource(o, u, oc) ==
    LET o0 == IF IsFalse(o, SourceVerified) THEN DeleteVerified(o) ELSE o
        rev == u.rev
        verifying == o0.verify /\ MustVerify(o0, rev)
        o1 == IF ~o0.verify THEN DeleteVerified(o0)
              ELSE IF verifying THEN MarkVerified(o0, "True", "Succeeded")
              ELSE o0
        skip == HasRevision(o1, rev) /\ ~ociContentConfigChanged(o1)
        b == [name |-> "", version |-> rev, path |-> 0, packaged |-> FALSE]
    IN  IF IsAuthFailure(oc)
        THEN OCIFail(o0, Generic("AuthenticationFailed"))
        ELSE IF ~o0.urlValid THEN OCIFail(o0, Stalling("URLInvalid"))
        ELSE IF oc = "tag"
        THEN [OCIFail(o0, Generic("ReadOperationFailed")) EXCEPT
                !.steps = {"ListTags"}]
        ELSE IF oc = "digest"
        THEN [OCIFail(o0, Generic("OCIPullFailed")) EXCEPT
                !.steps = {"Digest"}]
        ELSE IF verifying /\ o0.insecure
        THEN [obj |-> ObserveRevision(
                        MarkVerified(o0, "False", "VerificationError"), rev),
              res |-> ResultEmpty, err |-> Generic("VerificationError"),
              build |-> b, patched |-> ~HasRevision(o0, rev),
              checked |-> FALSE, steps |-> {"Digest"}]
        ELSE IF verifying /\ oc = "verify"
        THEN [obj |-> ObserveRevision(
                        MarkVerified(o0, "False", "VerificationError"), rev),
              res |-> ResultEmpty, err |-> Generic("VerificationError"),
              build |-> b, patched |-> ~HasRevision(o0, rev),
              checked |-> TRUE, steps |-> {"Digest"}]
        ELSE IF skip
        THEN [obj |-> ObserveRevision(Delete(o1, FetchFailed), rev),
              res |-> ResultSuccess, err |-> NoErr, build |-> b,
              patched |-> ~HasRevision(o1, rev), checked |-> verifying,
              steps |-> {"Digest"}]
        ELSE IF oc = "pull"
        THEN [obj |-> ObserveRevision(MarkTrue(o1, FetchFailed, "OCIPullFailed"), rev),
              res |-> ResultEmpty, err |-> Generic("OCIPullFailed"), build |-> b,
              patched |-> ~HasRevision(o1, rev), checked |-> verifying,
              steps |-> {"Digest", "Pull"}]
        ELSE [obj |-> ObserveRevision(Delete(o1, FetchFailed), rev),
              res |-> ResultSuccess, err |-> NoErr,
              build |-> [b EXCEPT !.path = TmpPath],
              patched |-> ~HasRevision(o1, rev), checked |-> verifying,
              steps |-> {"Digest", "Pull"}]

\* the failure of verifySignature is an outcome of a run that verifies
OCISourceOutcomes(o) ==
    OCIOutcomes \cup (IF o.verify /\ ~o.insecure THEN {"verify"} ELSE {})

\* the request to the registry that failed in outcome oc failed because
\* the context was cancelled: crane returns the error of the context as
\* the error of the request
CanceledRequest(oc, r) ==
    /\ oc \in {"tag", "digest", "pull"}
    /\ r.steps # {}
    /\ r.err \in {Generic("ReadOperationFailed"), Generic("OCIPullFailed")}

OCIRepository_reconcileSource ==
    /\ pc = "source"
    /\ kind = "OCIRepository"
    /\ \E oc \in OCISourceOutcomes(obj), patchOK \in BOOLEAN,
          canceled \in BOOLEAN :
        LET r == OCIRepositorySource(obj, up, oc) IN
        /\ (~r.patched => patchOK)
        /\ (oc = "verify" => r.checked /\ r.err # NoErr)
        /\ (canceled => CanceledRequest(oc, r))
        /\ Fault(oc # "ok" \/ ~patchOK)
        /\ ran' = ran \cup {"source"}
                       \cup (IF r.checked THEN {"verifySignature"} ELSE {})
                       \cup r.steps
                       \cup (IF oc = "unconfigured"
                             THEN {"ErrUnconfiguredProvider"} ELSE {})
                       \cup (IF canceled THEN {"context canceled"} ELSE {})
        /\ obj' = r.obj
        /\ build' = r.build
        /\ phaseRes' = r.res
        /\ phaseErr' = r.err
        /\ api' = IF r.patched /\ patchOK THEN r.obj ELSE api
    /\ last' = "source"
    /\ pc' = "loop"
    /\ UNCHANGED <<kind, start, res, resErr, retErr, events, wrote, exit,
                   artifactMissing, files, up, stable, concVars, call>>

-----------------------------------------------------------------------------
(* reconcileArtifact *)

\* what can happen to the storage operations of reconcileArtifact
ArtifactOutcomes == {"stat", "mkdir", "lock", "ignore", "copy", "symlink", "ok"}

reasonForBuild(b) ==
    IF ~Complete(b) THEN ""
    ELSE IF b.packaged THEN "ChartPackageSucceeded"
    ELSE "ChartPullSucceeded"

\* the deferred block of the HelmChart reconcileArtifact
HelmChartInStorage(o, b) ==
    IF o.observedChartName = b.name /\ HasRevision(o, b.version)
    THEN MarkTrue(Delete(o, ArtifactOutdated), ArtifactInStorage, reasonForBuild(b))
    ELSE o

HelmChartStorageFail(o, b, reason) ==
    [obj |-> HelmChartInStorage(MarkTrue(o, StorageOperationFailed, reason), b),
     res |-> ResultEmpty, err |-> Generic(reason), write |-> FALSE,
     events |-> {}]

\* reconcileArtifact of the HelmChart reconciler: the object it leaves, what
\* it returns and whether it wrote the artifact
HelmChartArtifact(o, b, oc) ==
    LET artifact == [NewArtifactFor(b.version) EXCEPT
                        !.checksum = ChecksumFor("HelmChart", o, b.version)]
        o1 == [o EXCEPT !.artifact = artifact,
                        !.observedChartName = b.name,
                        !.url = IF oc = "symlink" THEN o.url ELSE "latest"]
    IN  IF ~Complete(b)
        THEN [obj |-> o, res |-> ResultRequeue, err |-> NoErr, write |-> FALSE,
              events |-> {}]
        ELSE IF HasArtifact(o) /\ LocalPath(o.artifact) = b.path
        THEN [obj |-> HelmChartInStorage(o, b), res |-> ResultSuccess,
              err |-> NoErr, write |-> FALSE, events |-> {"ArtifactUpToDate"}]
        ELSE IF oc = "mkdir" THEN HelmChartStorageFail(o, b, "DirCreationFailed")
        ELSE IF oc = "lock" THEN HelmChartStorageFail(o, b, "AcquireLockFailed")
        ELSE IF oc = "copy" THEN HelmChartStorageFail(o, b, "ArchiveOperationFailed")
        ELSE [obj |-> HelmChartInStorage(Delete(o1, StorageOperationFailed), b),
              res |-> ResultSuccess, err |-> NoErr, write |-> TRUE,
              events |-> IF oc = "symlink" THEN {"SymlinkUpdateFailed"} ELSE {}]

HelmChart_reconcileArtifact ==
    /\ pc = "artifact"
    /\ kind = "HelmChart"
    /\ \E oc \in ArtifactOutcomes \ {"stat", "ignore"} :
        LET r == HelmChartArtifact(obj, build, oc) IN
        /\ Fault(oc # "ok")
        /\ obj' = r.obj
        /\ phaseRes' = r.res
        /\ phaseErr' = r.err
        /\ events' = events \cup r.events
        /\ files' = IF r.write
                    THEN WriteFile(files, LocalPath(r.obj.artifact), r.obj.artifact.checksum)
                    ELSE files
        /\ wrote' = IF r.write THEN wrote \cup {LocalPath(r.obj.artifact)} ELSE wrote
    /\ last' = "artifact"
    /\ ran' = ran \cup {"artifact"}
    /\ pc' = "loop"
    /\ UNCHANGED <<kind, api, start, res, resErr, retErr, build, exit,
                   artifactMissing, up, stable, concVars, call>>

\* the deferred block of the OCIRepository reconcileArtifact
OCIRepositoryInStorage(o, rev) ==
    IF HasRevision(o, rev) /\ ~ociContentConfigChanged(o)
    THEN MarkTrue(Delete(o, ArtifactOutdated), ArtifactInStorage, "Succeeded")
    ELSE o

\* a failure path that has already recorded the observations of the spec
OCIRepositoryStorageFailObserved(o, rev, reason, marks) ==
    [obj |-> OCIRepositoryInStorage(
                [(IF marks THEN MarkTrue(o, StorageOperationFailed, reason) ELSE o)
                    EXCEPT !.observedIgnore = o.ignore,
                           !.observedLayerSelector = o.layerSelector], rev),
     res |-> ResultEmpty, err |-> Generic(reason), write |-> FALSE,
     events |-> {}]

OCIRepositoryStorageFail(o, rev, reason, marks) ==
    [obj |-> OCIRepositoryInStorage(
                IF marks THEN MarkTrue(o, StorageOperationFailed, reason) ELSE o, rev),
     res |-> ResultEmpty, err |-> Generic(reason), write |-> FALSE,
     events |-> {}]

\* reconcileArtifact of the OCIRepository reconciler
OCIRepositoryArtifact(o, b, oc) ==
    LET rev == b.version
        artifact == [NewArtifactFor(rev) EXCEPT
                        !.checksum = ChecksumFor("OCIRepository", o, rev)]
        o1 == [o EXCEPT !.artifact = artifact,
                        !.observedIgnore = o.ignore,
                        !.observedLayerSelector = o.layerSelector,
                        !.url = IF oc = "symlink" THEN o.url ELSE "latest"]
    IN  IF HasRevision(o, rev) /\ ~ociContentConfigChanged(o)
        THEN [obj |-> OCIRepositoryInStorage(o, rev), res |-> ResultSuccess,
              err |-> NoErr, write |-> FALSE, events |-> {"ArtifactUpToDate"}]
        ELSE IF oc = "stat"
        THEN OCIRepositoryStorageFail(o, rev, "StatOperationFailed", TRUE)
        ELSE IF oc = "mkdir"
        THEN OCIRepositoryStorageFail(o, rev, "DirCreationFailed", TRUE)
        ELSE IF oc = "lock"
        THEN OCIRepositoryStorageFail(o, rev, "Failed", FALSE)
        ELSE IF oc = "ignore"
        THEN OCIRepositoryStorageFail(o, rev, "SourceIgnoreError", FALSE)
        ELSE IF oc = "copy"
        THEN OCIRepositoryStorageFail(o, rev, "ArchiveOperationFailed", TRUE)
        ELSE [obj |-> OCIRepositoryInStorage(Delete(o1, StorageOperationFailed), rev),
              res |-> ResultSuccess, err |-> NoErr, write |-> TRUE,
              events |-> IF oc = "symlink" THEN {"SymlinkUpdateFailed"} ELSE {}]

OCIRepository_reconcileArtifact ==
    /\ pc = "artifact"
    /\ kind = "OCIRepository"
    /\ \E oc \in ArtifactOutcomes :
        LET r == OCIRepositoryArtifact(obj, build, oc) IN
        /\ Fault(oc # "ok")
        /\ obj' = r.obj
        /\ phaseRes' = r.res
        /\ phaseErr' = r.err
        /\ events' = events \cup r.events
        /\ files' = IF r.write
                    THEN WriteFile(files, LocalPath(r.obj.artifact), r.obj.artifact.checksum)
                    ELSE files
        /\ wrote' = IF r.write THEN wrote \cup {LocalPath(r.obj.artifact)} ELSE wrote
    /\ last' = "artifact"
    /\ ran' = ran \cup {"artifact"}
    /\ pc' = "loop"
    /\ UNCHANGED <<kind, api, start, res, resErr, retErr, build, exit,
                   artifactMissing, up, stable, concVars, call>>

-----------------------------------------------------------------------------
(* notify *)

helmChartFailConditions == {BuildFailed, FetchFailed, StorageOperationFailed}

ociRepositoryFailConditions == {FetchFailed, StorageOperationFailed}

\* sreconcile.FailureRecovery: a failure condition was present on the old
\* object and none is present on the new one
FailureRecovery(old, new, failConditions) ==
    /\ \E t \in failConditions : Has(old, t)
    /\ \A t \in failConditions : ~Has(new, t)

NotifyReasonAlways(k, old, new, b, r, e) ==
    IF k = "HelmChart" THEN "ChartPullSucceeded" ELSE "NewArtifact"

\* the reason of the event notify emits, "" when it emits none
NotifyReason(k, old, new, b, r, e) ==
    IF e = NoErr /\ r = ResultSuccess /\ HasArtifact(new)
    THEN IF old.artifact.checksum # new.artifact.checksum
         THEN IF k = "HelmChart" THEN reasonForBuild(b) ELSE "NewArtifact"
         ELSE IF FailureRecovery(old, new,
                    IF k = "HelmChart" THEN helmChartFailConditions
                    ELSE ociRepositoryFailConditions)
         THEN IF k = "HelmChart" THEN reasonForBuild(b) ELSE "Succeeded"
         ELSE ""
    ELSE ""

notify ==
    /\ pc = "notify"
    /\ LET reason == NotifyReason(kind, start, obj, build, res, resErr) IN
        events' = IF reason # "" THEN events \cup {reason} ELSE events
    /\ pc' = "summarize"
    /\ UNCHANGED <<kind, api, obj, start, last, phaseRes, phaseErr, res,
                   resErr, retErr, build, ran, wrote, exit, artifactMissing,
                   files, up, stable, faults, concVars, call>>

HelmChart_notify == kind = "HelmChart" /\ notify

OCIRepository_notify == kind = "OCIRepository" /\ notify

-----------------------------------------------------------------------------
(* The deferred summary and patch of Reconcile *)

\* summarize.Conditions.Summarize of helmChartReadyCondition and
\* ociRepositoryReadyCondition, in their order
SummarizeTypes(k) ==
    IF k = "HelmChart"
    THEN <<StorageOperationFailed, FetchFailed, BuildFailed, ArtifactOutdated,
           ArtifactInStorage, SourceVerified, Stalled, Reconciling>>
    ELSE <<StorageOperationFailed, FetchFailed, ArtifactOutdated,
           ArtifactInStorage, SourceVerified, Stalled, Reconciling>>

NegativePolarity(k) ==
    IF k = "HelmChart"
    THEN {StorageOperationFailed, FetchFailed, BuildFailed, ArtifactOutdated,
          Stalled, Reconciling}
    ELSE {StorageOperationFailed, FetchFailed, ArtifactOutdated, Stalled,
          Reconciling}

\* the merge priority of a condition: an abnormal-true condition first, an
\* unknown one last
MergePriority(k, o, t) ==
    LET st == o.conds[t].status
        neg == t \in NegativePolarity(k)
    IN  IF st = "True" THEN (IF neg THEN 0 ELSE 2)
        ELSE IF st = "False" THEN (IF neg THEN 3 ELSE 1)
        ELSE IF st = "Unknown" THEN 4
        ELSE 5

\* conditions.SetSummary of Ready: status and reason of the first condition
\* of the group with the highest priority; nothing is set when no summarized
\* condition is present
SetSummary(k, o) ==
    LET ts == SummarizeTypes(k)
        present == {i \in 1 .. Len(ts) : Has(o, ts[i])}
        top == CHOOSE i \in present :
                  \A j \in present :
                     \/ MergePriority(k, o, ts[i]) < MergePriority(k, o, ts[j])
                     \/ (MergePriority(k, o, ts[i]) = MergePriority(k, o, ts[j]) /\ i <= j)
        pr == MergePriority(k, o, ts[top])
        st == IF pr \in {0, 1} THEN "False"
              ELSE IF pr \in {2, 3} THEN "True"
              ELSE "Unknown"
    IN  IF present = {} THEN o
        ELSE SetCond(o, Ready, st, o.conds[ts[top]].reason)

\* the SourceVerified condition, when False, gives Ready its value
BiPolarity(o) ==
    IF IsFalse(o, SourceVerified)
    THEN MarkFalse(o, Ready, o.conds[SourceVerified].reason)
    ELSE o

\* summarize.RecordReconcileReq
RecordReconcileReq(o) ==
    IF o.requestedAt # ""
    THEN [o EXCEPT !.lastHandledReconcileAt = o.requestedAt]
    ELSE o

ComputeReconcileResultNoStall(o, r, e) ==
    LET o1 == IF e = NoErr /\ r = ResultSuccess THEN Delete(o, Reconciling) ELSE o
        o2 == IF IsReconciling(o1)
              THEN MarkTrue(o1, Reconciling, "ProgressingWithRetry")
              ELSE o1
        anyCond == \E t \in CondTypes : Has(o2, t)
    IN  IF e = NoErr
        THEN [obj |-> Delete(o2, Stalled), err |-> NoErr,
              observed |-> (r # ResultRequeue /\ anyCond)]
        ELSE [obj |-> Delete(o2, Stalled), err |-> e, observed |-> FALSE]

\* reconcile.ComputeReconcileResult: the object, the error left to return
\* and whether status.observedGeneration is to be set by the patch
ComputeReconcileResult(o, r, e) ==
    LET o1 == IF e = NoErr /\ r = ResultSuccess THEN Delete(o, Reconciling) ELSE o
        o2 == IF IsReconciling(o1)
              THEN MarkTrue(o1, Reconciling, "ProgressingWithRetry")
              ELSE o1
        anyCond == \E t \in CondTypes : Has(o2, t)
    IN  IF e.type = "Stalling" /\ r = ResultEmpty
        THEN [obj |-> MarkStalled(o2, e.reason), err |-> NoErr, observed |-> TRUE]
        ELSE IF e = NoErr
        THEN [obj |-> Delete(o2, Stalled), err |-> NoErr,
              observed |-> (r # ResultRequeue /\ anyCond)]
        ELSE [obj |-> Delete(o2, Stalled), err |-> e, observed |-> FALSE]

NotReadyErr == [type |-> "Other", reason |-> "NotReady"]

\* summarize.Helper.SummarizeAndPatch up to its patch: the object to patch
\* and the error to return when the patch succeeds
Summarized(k, o, r, e) ==
    LET c == ComputeReconcileResult(RecordReconcileReq(o), r, e)
        o1 == BiPolarity(SetSummary(k, c.obj))
        success == ~IsStalled(o1) /\ c.err = NoErr /\ r = ResultSuccess
    IN  [obj |-> IF c.observed
                 THEN [o1 EXCEPT !.observedGeneration = o1.generation]
                 ELSE o1,
         err |-> IF success /\ ~IsReady(o1) THEN NotReadyErr ELSE c.err]

\* the events summarize.RecordContextualError emits for the error
ErrorEvents(e) == IF e.type \in {"Generic", "Stalling"} THEN {e.reason} ELSE {}

SummarizeAndPatch ==
    /\ pc = "summarize"
    /\ \E patchOK \in BOOLEAN :
        LET s == Summarized(kind, obj, res, resErr) IN
        /\ (s.obj = api => patchOK)
        /\ Fault(~patchOK)
        /\ obj' = s.obj
        /\ api' = IF patchOK THEN s.obj ELSE api
        /\ retErr' = IF patchOK THEN s.err ELSE PatchErr
    /\ events' = events \cup ErrorEvents(resErr)
    /\ pc' = "done"
    /\ UNCHANGED <<kind, start, last, phaseRes, phaseErr, res, resErr, build,
                   ran, wrote, exit, artifactMissing, files, up, stable,
                   concVars, call>>

HelmChart_SummarizeAndPatch == kind = "HelmChart" /\ SummarizeAndPatch

OCIRepository_SummarizeAndPatch == kind = "OCIRepository" /\ SummarizeAndPatch

\* Reconcile returns to the controller runtime
Return ==
    /\ pc = "done"
    /\ api' = api
    /\ ResetRun
    /\ stable' = (exit = "reconcile" /\ res = ResultSuccess /\ retErr = NoErr)
    /\ UNCHANGED <<kind, files, up, faults, concVars, call>>

-----------------------------------------------------------------------------
(* The HelmRepository reconciler for repositories of type OCI.  Its results *)
(* are ctrl.Result values: ResultEmpty stands for ctrl.Result{},            *)
(* ResultRequeue for Requeue: true and ResultSuccess for RequeueAfter: the  *)
(* interval of the object.                                                  *)

HelmRepositoryOCI_Reconcile ==
    /\ kind = "HelmRepository"
    /\ Idle
    /\ Exists(api)
    /\ start' = api
    /\ IF ~api.finalizer
       THEN /\ obj' = [api EXCEPT !.finalizer = TRUE]
            /\ res' = ResultRequeue
            /\ exit' = "finalizer"
            /\ pc' = "summarize"
       ELSE IF api.deleting
       THEN /\ obj' = [api EXCEPT !.finalizer = FALSE]
            /\ res' = ResultEmpty
            /\ exit' = "delete"
            /\ pc' = "summarize"
       ELSE IF api.suspend
       THEN /\ obj' = api
            /\ res' = ResultEmpty
            /\ exit' = "suspend"
            /\ pc' = "summarize"
       ELSE IF ~api.typeOCI
       THEN /\ obj' = [api EXCEPT !.conds = NoConds]
            /\ res' = ResultEmpty
            /\ exit' = "type"
            /\ pc' = "summarize"
       ELSE /\ obj' = api
            /\ res' = ResultEmpty
            /\ exit' = "reconcile"
            /\ pc' = "begin"
    /\ resErr' = NoErr
    /\ UNCHANGED <<kind, api, last, phaseRes, phaseErr, retErr, build, ran,
                   events, wrote, artifactMissing, files, up, stable, faults, concVars, call>>

\* what can happen to the authentication and the login to the registry
HelmRepositoryOutcomes ==
    {"auth", "unconfigured", "client", "construct", "login", "ok"}

AuthErr(reason) == [type |-> "Other", reason |-> reason]

\* reconcile of the HelmRepository reconciler up to its deferred block,
\* after the prologue left object o; steps tells whether it reached the
\* login to the registry
HelmRepositoryBody(o, oc) ==
    LET o1 == Delete(o, Stalled) IN
    IF ~o.urlValid
    THEN [obj |-> MarkFalse(MarkStalled(o, "URLInvalid"), Ready, "URLInvalid"),
          res |-> ResultEmpty, err |-> NoErr,
          steps |-> {}]
    ELSE IF IsAuthFailure(oc)
    THEN [obj |-> MarkFalse(o1, Ready, "AuthenticationFailed"),
          res |-> ResultEmpty, err |-> AuthErr("AuthenticationFailed"),
          steps |-> {}]
    ELSE IF oc = "client"
    THEN [obj |-> MarkFalse(o1, Ready, "Failed"),
          res |-> ResultEmpty, err |-> AuthErr("Failed"),
          steps |-> {}]
    ELSE IF oc = "construct"
    THEN [obj |-> MarkFalse(MarkStalled(o1, "URLInvalid"), Ready,
                            "URLInvalid"),
          res |-> ResultEmpty, err |-> NoErr,
          steps |-> {}]
    ELSE IF oc = "login"
    THEN [obj |-> MarkFalse(o1, Ready, "AuthenticationFailed"),
          res |-> ResultEmpty, err |-> AuthErr("AuthenticationFailed"),
          steps |-> {"Login"}]
    ELSE [obj |-> Delete(o1, Ready), res |-> ResultSuccess, err |-> NoErr,
          steps |-> {"Login"} \cup (IF oc = "unconfigured"
                                    THEN {"ErrUnconfiguredProvider"}
                                    ELSE {})]

HelmRepositorySummaryKeepReason(o, r, e) ==
    LET o1 == IF IsStalled(o) THEN Delete(o, Reconciling) ELSE o
        success == r = ResultSuccess /\ e = NoErr
        o2 == IF success THEN Delete(o1, Reconciling) ELSE o1
        e2 == IF success /\ IsFalse(o2, Ready) /\ ~IsStalled(o2)
              THEN NotReadyErr ELSE e
        o4 == IF ~IsReconciling(o2) /\ ~IsStalled(o2) /\ e2 = NoErr
                 /\ r = ResultSuccess
              THEN MarkTrue(o2, Ready, "Succeeded")
              ELSE o2
    IN  [obj |-> o4, res |-> r, err |-> e2]

\* the deferred block of reconcile of the HelmRepository reconciler
HelmRepositorySummary(o, r, e) ==
    LET o1 == IF IsStalled(o) THEN Delete(o, Reconciling) ELSE o
        success == r = ResultSuccess /\ e = NoErr
        o2 == IF success THEN Delete(o1, Reconciling) ELSE o1
        e2 == IF success /\ IsFalse(o2, Ready) /\ ~IsStalled(o2)
              THEN NotReadyErr ELSE e
        o3 == IF IsReconciling(o2)
              THEN MarkTrue(o2, Reconciling, "ProgressingWithRetry")
              ELSE o2
        o4 == IF ~IsReconciling(o3) /\ ~IsStalled(o3) /\ e2 = NoErr
                 /\ r = ResultSuccess
              THEN MarkTrue(o3, Ready, "Succeeded")
              ELSE o3
    IN  [obj |-> o4, res |-> r, err |-> e2]

ReadyEventsOfOutcome(oldObj, o) ==
    LET ready == o.conds[Ready] IN
    (IF IsReady(o) THEN {"Normal", ready.reason} ELSE {})
    \cup (IF ~IsReady(o) THEN {"Warning", ready.reason} ELSE {})

\* the events the deferred block of reconcile emits when the readiness of
\* the object changed: the type of the event and, as its reason, the reason
\* of the Ready condition
ReadyEvents(oldObj, o) ==
    LET ready == o.conds[Ready] IN
    (IF ~IsReady(oldObj) /\ IsReady(o) THEN {"Normal", ready.reason} ELSE {})
    \cup (IF IsReady(oldObj) /\ ~IsReady(o) THEN {"Warning", ready.reason}
          ELSE {})

HelmRepositoryOCI_reconcile ==
    /\ kind = "HelmRepository"
    /\ pc = "begin"
    /\ \E oc \in HelmRepositoryOutcomes, patchOK \in BOOLEAN :
        LET o1 == Progressing(obj)
            b == HelmRepositoryBody(o1, oc)
            s == IF patchOK
                 THEN HelmRepositorySummary(b.obj, b.res, b.err)
                 ELSE HelmRepositorySummary(o1, ResultEmpty, PatchErr)
        IN
        /\ (~PersistsReconciling(obj) => patchOK)
        /\ Fault(oc # "ok" \/ ~patchOK)
        /\ api' = IF PersistsReconciling(obj) /\ patchOK THEN o1 ELSE api
        /\ obj' = s.obj
        /\ res' = s.res
        /\ resErr' = s.err
        /\ events' = events \cup ReadyEvents(start, s.obj)
        /\ ran' = ran \cup {"reconcile"} \cup (IF patchOK THEN b.steps ELSE {})
    /\ pc' = "summarize"
    /\ UNCHANGED <<kind, start, last, phaseRes, phaseErr, retErr, build,
                   wrote, exit, artifactMissing, files, up, stable, concVars, call>>

\* the object the deferred block of Reconcile patches: the handled
\* reconcile request is recorded, and the observed generation is set when
\* the object is stalled or ready
HelmRepositoryPatched(o) ==
    LET o1 == RecordReconcileReq(o) IN
    IF IsStalled(o1) \/ IsReady(o1)
    THEN [o1 EXCEPT !.observedGeneration = o1.generation]
    ELSE o1

\* the deferred block of Reconcile of the HelmRepository reconciler
HelmRepositoryOCI_patch ==
    /\ kind = "HelmRepository"
    /\ pc = "summarize"
    /\ \E patchOK \in BOOLEAN :
        LET o1 == HelmRepositoryPatched(obj) IN
        /\ (o1 = api => patchOK)
        /\ Fault(~patchOK)
        /\ obj' = o1
        /\ api' = IF patchOK THEN o1 ELSE api
        /\ retErr' = IF patchOK THEN resErr ELSE PatchErr
    /\ pc' = "done"
    /\ UNCHANGED <<kind, start, last, phaseRes, phaseErr, res, resErr, build,
                   ran, events, wrote, exit, artifactMissing, files, up,
                   stable, concVars, call>>

-----------------------------------------------------------------------------
(* The environment: the user, the upstream and the file system act between  *)
(* reconciliations                                                          *)

Touch(o) ==
    /\ api' = o
    /\ obj' = o
    /\ start' = o
    /\ UNCHANGED <<kind, pc, last, phaseRes, phaseErr, res, resErr, retErr,
                   build, ran, events, wrote, exit, artifactMissing, faults,
                   concVars, call>>

Edits(k) ==
    IF k = "OCIRepository" THEN {"suspend", "url", "ignore", "layer"}
    ELSE IF k = "HelmRepository" THEN {"suspend", "url", "type"}
    ELSE {"suspend", "chart"}

\* the user changes the spec: the generation increases
UserEdit ==
    /\ Idle
    /\ Exists(api)
    /\ api.generation < MaxGen
    /\ \E c \in Edits(kind) :
        Touch([api EXCEPT !.generation = @ + 1,
                          !.suspend = IF c = "suspend" THEN ~@ ELSE @,
                          !.urlValid = IF c = "url" THEN ~@ ELSE @,
                          !.typeOCI = IF c = "type" THEN ~@ ELSE @,
                          !.ignore = IF c = "ignore" THEN 1 - @ ELSE @,
                          !.layerSelector = IF c = "layer" THEN 1 - @ ELSE @])
    /\ stable' = FALSE
    /\ UNCHANGED <<files, up>>

\* the user requests a reconciliation with the requestedAt annotation
RequestReconcile ==
    /\ Idle
    /\ Exists(api)
    /\ \E t \in Tokens \ {"", api.requestedAt} :
        Touch([api EXCEPT !.requestedAt = t])
    /\ UNCHANGED <<files, up, stable>>

\* the user deletes the object: the deletion timestamp is set
UserDelete ==
    /\ Idle
    /\ Exists(api)
    /\ ~api.deleting
    /\ Touch([api EXCEPT !.deleting = TRUE])
    /\ stable' = FALSE
    /\ UNCHANGED <<files, up>>

\* the upstream publishes a newer revision or withdraws one and falls back
\* to the revision of the stored artifact, or the source of a chart gains
\* or loses its artifact
UpstreamChange ==
    /\ Idle
    /\ Reconciled
    /\ \E u \in [rev : Revs, ready : BOOLEAN, oci : {up.oci}] :
        /\ u # up
        /\ (u.rev >= up.rev \/ HasRevision(api, u.rev))
        /\ (kind # "HelmChart" => u.ready)
        /\ up' = u
    /\ stable' = FALSE
    /\ UNCHANGED <<kind, api, runVars, files, faults, concVars, call>>

\* a file is removed from storage behind the controller's back
ExternalDelete ==
    /\ Idle
    /\ \E i \in 1 .. Len(files) :
        files' = SubSeq(files, 1, i - 1) \o SubSeq(files, i + 1, Len(files))
    /\ Fault(TRUE)
    /\ stable' = FALSE
    /\ UNCHANGED <<kind, api, runVars, up, concVars, call>>

-----------------------------------------------------------------------------

Next ==
    \/ HelmChart_Reconcile
    \/ HelmChart_reconcileDelete
    \/ HelmChart_reconcile
    \/ HelmChart_reconcileStorage
    \/ HelmChart_reconcileSource
    \/ HelmChart_reconcileArtifact
    \/ HelmChart_reconcileLoop
    \/ HelmChart_notify
    \/ HelmChart_SummarizeAndPatch
    \/ OCIRepository_Reconcile
    \/ OCIRepository_reconcileDelete
    \/ OCIRepository_reconcile
    \/ OCIRepository_reconcileStorage
    \/ OCIRepository_reconcileSource
    \/ OCIRepository_reconcileArtifact
    \/ OCIRepository_reconcileLoop
    \/ OCIRepository_notify
    \/ OCIRepository_SummarizeAndPatch
    \/ HelmRepositoryOCI_Reconcile
    \/ HelmRepositoryOCI_reconcile
    \/ HelmRepositoryOCI_patch
    \/ Return
    \/ UserEdit
    \/ RequestReconcile
    \/ UserDelete
    \/ UpstreamChange
    \/ ExternalDelete

Spec == Init /\ [][Next]_vars

TypeOK ==
    /\ kind \in Kinds
    /\ pc \in {"idle", "delete", "begin", "storage", "source", "artifact",
               "loop", "notify", "summarize", "done"}
    /\ res \in Results
    /\ (Idle => obj = api /\ start = api)

-----------------------------------------------------------------------------
(* reconcile with arbitrary phases: the reconcilers are a parameter of      *)
(* reconcile, and each may return any result with any error                 *)

PhaseErrors == {NoErr, Generic("Failed"), Stalling("Failed")}

\* a reconciler passed to reconcile returns
AnyPhase ==
    /\ pc \in {"storage", "source", "artifact"}
    /\ Reconciled
    /\ \E r \in Results, e \in PhaseErrors :
        /\ phaseRes' = r
        /\ phaseErr' = e
    /\ last' = pc
    /\ ran' = ran \cup {pc}
    /\ pc' = "loop"
    /\ UNCHANGED <<kind, api, obj, start, res, resErr, retErr, build, events,
                   wrote, exit, artifactMissing, files, up, stable, faults,
                   concVars, call>>

InitLoop ==
    /\ Init
    /\ Reconciled

NextLoop ==
    \/ HelmChart_Reconcile
    \/ HelmChart_reconcileDelete
    \/ HelmChart_reconcile
    \/ HelmChart_reconcileLoop
    \/ HelmChart_notify
    \/ HelmChart_SummarizeAndPatch
    \/ OCIRepository_Reconcile
    \/ OCIRepository_reconcileDelete
    \/ OCIRepository_reconcile
    \/ OCIRepository_reconcileLoop
    \/ OCIRepository_notify
    \/ OCIRepository_SummarizeAndPatch
    \/ AnyPhase
    \/ Return
    \/ UserDelete

SpecLoop == InitLoop /\ [][NextLoop]_vars

-----------------------------------------------------------------------------------------------------------------------------------------------------
(* Concurrent reconciliations in the archive step of reconcileArtifact: the *)
(* work queue hands the key of an object to a worker, which creates the     *)
(* directory, takes the lock of its artifact, writes the file, records the  *)
(* artifact and releases the lock on return                                 *)

ArchiveNextNoLock(step) ==
    IF step = "mkdir" THEN "write"
    ELSE IF step = "write" THEN "record"
    ELSE "idle"

\* the order of the storage operations of reconcileArtifact
ArchiveNext(step) ==
    IF step = "mkdir" THEN "lock"
    ELSE IF step = "lock" THEN "write"
    ELSE IF step = "write" THEN "record"
    ELSE "idle"

\* Storage.Lock locks the lock file next to the file of the artifact
LockKey(key, a) == <<key, LocalPath(a)>>

Held(ls, key, a) == \E l \in ls : l.key = LockKey(key, a)

\* the work queue never hands out a key that a worker is processing
CanDispatch(q, w, key) ==
    /\ q[w].pc = "idle"
    /\ \A v \in Workers : q[v].key # key

ArchiveUnchanged ==
    UNCHANGED <<kind, api, runVars, up, stable, faults, call>>

\* a worker receives a key and its reconciliation reaches the archive step
\* with an artifact to store
ArchiveStart(w) ==
    /\ \E key \in Keys, rev \in Revs :
        /\ CanDispatch(wk, w, key)
        /\ wk' = [wk EXCEPT ![w] = [pc |-> "mkdir", key |-> key, rev |-> rev]]
    /\ UNCHANGED <<files, locks>>
    /\ ArchiveUnchanged

\* Storage.MkdirAll
ArchiveMkdir(w) ==
    /\ wk[w].pc = "mkdir"
    /\ wk' = [wk EXCEPT ![w].pc = ArchiveNext("mkdir")]
    /\ UNCHANGED <<files, locks>>
    /\ ArchiveUnchanged

\* Storage.Lock: the lock is taken once no one holds it
ArchiveLock(w) ==
    /\ wk[w].pc = "lock"
    /\ ~Held(locks, wk[w].key, NewArtifactFor(wk[w].rev))
    /\ locks' = locks \cup
                {[key |-> LockKey(wk[w].key, NewArtifactFor(wk[w].rev)), by |-> w]}
    /\ wk' = [wk EXCEPT ![w].pc = ArchiveNext("lock")]
    /\ UNCHANGED files
    /\ ArchiveUnchanged

\* Storage.CopyFromPath / Storage.Archive; the files of the other objects
\* are in other directories
ArchiveWrite(w) ==
    /\ wk[w].pc = "write"
    /\ files' = IF wk[w].key = 1
                THEN WriteFile(files, LocalPath(NewArtifactFor(wk[w].rev)),
                               ChecksumFor(kind, api, wk[w].rev))
                ELSE files
    /\ wk' = [wk EXCEPT ![w].pc = ArchiveNext("write")]
    /\ UNCHANGED locks
    /\ ArchiveUnchanged

\* a return of reconcileArtifact that leaves the lock of the worker locked
ArchiveFailKeepLock(w) ==
    /\ wk[w].pc \in {"mkdir", "lock", "write"}
    /\ wk' = [wk EXCEPT ![w].pc = "failed"]
    /\ UNCHANGED <<files, locks>>
    /\ ArchiveUnchanged

\* a storage operation fails and reconcileArtifact returns its error:
\* MkdirAll or Lock (no lock is held yet), the load of the ignore patterns,
\* CopyFromPath or Archive (the deferred unlock releases the lock)
ArchiveFail(w) ==
    /\ wk[w].pc \in {"mkdir", "lock", "write"}
    /\ locks' = {l \in locks : l.by # w}
    /\ wk' = [wk EXCEPT ![w].pc = "failed"]
    /\ UNCHANGED files
    /\ ArchiveUnchanged

\* the artifact is recorded and reconcileArtifact returns: the deferred
\* unlock releases the lock, and the worker is done with the key, as it is
\* after a failed phase
ArchiveReturn(w) ==
    /\ wk[w].pc \in {"record", "failed"}
    /\ locks' = IF wk[w].pc = "record" THEN {l \in locks : l.by # w} ELSE locks
    /\ wk' = [wk EXCEPT ![w] = IdleWorker]
    /\ UNCHANGED files
    /\ ArchiveUnchanged

InitArchive ==
    /\ Init
    /\ Reconciled
    /\ ~api.suspend

NextArchive ==
    \E w \in Workers :
        \/ ArchiveStart(w)
        \/ ArchiveMkdir(w)
        \/ ArchiveLock(w)
        \/ ArchiveWrite(w)
        \/ ArchiveFail(w)
        \/ ArchiveReturn(w)

SpecArchive == InitArchive /\ [][NextArchive]_vars

-----------------------------------------------------------------------------
(* Resolution of the reference of an OCIRepository: getTagBySemver,         *)
(* getArtifactURL and getRevision.  Strings are sequences of characters, so *)
(* that formatting, splitting and parsing are computed.                     *)

\* tags the registry lists in one call
MaxTags == 3

Digits == {"0", "1", "2", "3", "4", "5", "6", "7", "8", "9"}

DigitVal(c) ==
    CASE c = "0" -> 0 [] c = "1" -> 1 [] c = "2" -> 2 [] c = "3" -> 3
      [] c = "4" -> 4 [] c = "5" -> 5 [] c = "6" -> 6 [] c = "7" -> 7
      [] c = "8" -> 8 [] c = "9" -> 9

\* the byte of a character, which orders strings
CharCode(c) ==
    CASE c \in Digits -> 48 + DigitVal(c)
      [] c = "." -> 46 [] c = "/" -> 47 [] c = ":" -> 58 [] c = "@" -> 64
      [] c = "a" -> 97 [] c = "e" -> 101 [] c = "l" -> 108 [] c = "o" -> 111
      [] c = "r" -> 114 [] c = "s" -> 115 [] c = "t" -> 116 [] c = "v" -> 118

\* s < t for strings
RECURSIVE StringLess(_, _)
StringLess(s, t) ==
    IF t = <<>> THEN FALSE
    ELSE IF s = <<>> THEN TRUE
    ELSE IF Head(s) # Head(t) THEN CharCode(Head(s)) < CharCode(Head(t))
    ELSE StringLess(Tail(s), Tail(t))

\* strings.Split
RECURSIVE Split(_, _)
Split(s, sep) ==
    IF s = <<>> THEN << <<>> >>
    ELSE LET r == Split(Tail(s), sep) IN
         IF Head(s) = sep THEN << <<>> >> \o r
         ELSE << <<Head(s)>> \o r[1] >> \o Tail(r)

\* strings.Contains for a single character
Contains(s, c) == \E i \in 1 .. Len(s) : s[i] = c

\* strings.TrimPrefix
TrimPrefix(s, prefix) ==
    IF Len(s) >= Len(prefix) /\ SubSeq(s, 1, Len(prefix)) = prefix
    THEN SubSeq(s, Len(prefix) + 1, Len(s))
    ELSE s

RECURSIVE Atoi(_)
Atoi(s) ==
    IF s = <<>> THEN 0
    ELSE 10 * Atoi(SubSeq(s, 1, Len(s) - 1)) + DigitVal(s[Len(s)])

\* a numeric identifier of a version: digits without a leading zero
IsNumeric(s) ==
    /\ s # <<>>
    /\ \A i \in 1 .. Len(s) : s[i] \in Digits
    /\ (Len(s) > 1 => s[1] # "0")

\* version.ParseVersion: a strict MAJOR.MINOR.PATCH version, with an
\* optional leading "v"; the version keeps the tag as its original
ParseVersion(t) ==
    LET parts == Split(TrimPrefix(t, <<"v">>), ".") IN
    IF Len(parts) = 3 /\ \A i \in 1 .. 3 : IsNumeric(parts[i])
    THEN [ok |-> TRUE, major |-> Atoi(parts[1]), minor |-> Atoi(parts[2]),
          patch |-> Atoi(parts[3]), original |-> t]
    ELSE [ok |-> FALSE, major |-> 0, minor |-> 0, patch |-> 0, original |-> t]

\* semver.Version.Compare: the precedence of versions
Compare(v, w) ==
    IF v.major # w.major THEN (IF v.major < w.major THEN -1 ELSE 1)
    ELSE IF v.minor # w.minor THEN (IF v.minor < w.minor THEN -1 ELSE 1)
    ELSE IF v.patch # w.patch THEN (IF v.patch < w.patch THEN -1 ELSE 1)
    ELSE 0

\* semver.Collection.Less
LessThan(v, w) == Compare(v, w) < 0

\* the expressions of spec.ref.semver: ">=0.0.0", "<1.10.0", ">=3.0.0" and
\* one that is not a constraint
SemVerExps ==
    {[op |-> ">=", major |-> 0, minor |-> 0, patch |-> 0],
     [op |-> "<", major |-> 1, minor |-> 10, patch |-> 0],
     [op |-> ">=", major |-> 3, minor |-> 0, patch |-> 0],
     [op |-> "?", major |-> 0, minor |-> 0, patch |-> 0]}

\* semver.NewConstraint succeeds
NewConstraint(exp) == exp.op \in {">=", "<"}

\* semver.Constraints.Check
Check(c, v) ==
    IF c.op = ">=" THEN Compare(v, c) >= 0 ELSE Compare(v, c) < 0

\* the tags of the repository: 1.9.0, 1.10.0, v1.10.0, 2.0.0, latest, 1.9
RegistryTags ==
    {<<"1", ".", "9", ".", "0">>,
     <<"1", ".", "1", "0", ".", "0">>,
     <<"v", "1", ".", "1", "0", ".", "0">>,
     <<"2", ".", "0", ".", "0">>,
     <<"l", "a", "t", "e", "s", "t">>,
     <<"1", ".", "9">>}

\* what crane.ListTags can return: the tags in any order
Listings ==
    UNION {{l \in [1 .. n -> RegistryTags] :
                \A i, j \in 1 .. n : i # j => l[i] # l[j]} : n \in 0 .. MaxTags}

Range(s) == {s[i] : i \in 1 .. Len(s)}

\* the orders sort.Sort(sort.Reverse(...)) can leave the versions in: every
\* descending order; sort.Sort is not stable, so versions of equal
\* precedence end in any order
SortReverse(m) ==
    {[i \in 1 .. Len(m) |-> m[p[i]]] :
        p \in {q \in [1 .. Len(m) -> 1 .. Len(m)] :
                 /\ \A i, j \in 1 .. Len(m) : i # j => q[i] # q[j]
                 /\ \A i, j \in 1 .. Len(m) :
                        i < j => ~LessThan(m[q[i]], m[q[j]])}}

NoTag == <<>>

TagResult(tag, err) == [tag |-> tag, err |-> err]

getTagBySemverUnsorted(tags, listOK, exp) ==
    LET vs == [i \in 1 .. Len(tags) |-> ParseVersion(tags[i])]
        matchingVersions == SelectSeq(vs, LAMBDA v : v.ok /\ Check(exp, v))
    IN  IF ~listOK THEN {TagResult(NoTag, "ListTags")}
        ELSE IF ~NewConstraint(exp) THEN {TagResult(NoTag, "parse error")}
        ELSE IF matchingVersions = <<>> THEN {TagResult(NoTag, "no match found")}
        ELSE {TagResult(matchingVersions[1].original, "")}

getTagBySemverNoCheck(tags, listOK, exp) ==
    LET vs == [i \in 1 .. Len(tags) |-> ParseVersion(tags[i])]
        matchingVersions == SelectSeq(vs, LAMBDA v : v.ok)
    IN  IF ~listOK THEN {TagResult(NoTag, "ListTags")}
        ELSE IF ~NewConstraint(exp) THEN {TagResult(NoTag, "parse error")}
        ELSE IF matchingVersions = <<>> THEN {TagResult(NoTag, "no match found")}
        ELSE {TagResult(sorted[1].original, "") : sorted \in SortReverse(matchingVersions)}

\* getTagBySemver: what it can return for the tags as listed
getTagBySemver(tags, listOK, exp) ==
    LET vs == [i \in 1 .. Len(tags) |-> ParseVersion(tags[i])]
        matchingVersions == SelectSeq(vs, LAMBDA v : v.ok /\ Check(exp, v))
    IN  IF ~listOK THEN {TagResult(NoTag, "ListTags")}
        ELSE IF ~NewConstraint(exp) THEN {TagResult(NoTag, "parse error")}
        ELSE IF matchingVersions = <<>> THEN {TagResult(NoTag, "no match found")}
        ELSE {TagResult(sorted[1].original, "") : sorted \in SortReverse(matchingVersions)}

\* the reconciler and the object a helper is called on
InitHelper ==
    /\ InitReconciler
    /\ kind = "OCIRepository"
    /\ ~api.suspend

InitSemver ==
    /\ InitHelper
    /\ call \in [fn : {"getTagBySemver"}, tags : Listings, listOK : BOOLEAN,
                 exp : SemVerExps, done : {FALSE}, tag : {NoTag}, err : {""}]

HelperUnchanged ==
    UNCHANGED <<kind, api, runVars, files, up, stable, faults, concVars>>

OCIRepository_getTagBySemver ==
    /\ call.fn = "getTagBySemver"
    /\ ~call.done
    /\ \E out \in getTagBySemver(call.tags, call.listOK, call.exp) :
        call' = [call EXCEPT !.done = TRUE, !.tag = out.tag, !.err = out.err]
    /\ HelperUnchanged

NextSemver == OCIRepository_getTagBySemver

SpecSemver == InitSemver /\ [][NextSemver]_vars

\* the registry of the repository, with a port, and the repository as
\* parseRepositoryURL returns it: "r:5" and "r:5/o"
Registry == <<"r", ":", "5">>

Repository == Registry \o <<"/", "o">>

\* the digest a reference can pin, and the hex of the digest the registry
\* reports: "a:ee" and "ee"
PinnedDigest == <<"a", ":", "e", "e">>

Hex == <<"e", "e">>

Latest == <<"l", "a", "t", "e", "s", "t">>

\* spec.ref.semver is empty
NoExp == [op |-> "", major |-> 0, minor |-> 0, patch |-> 0]

\* spec.ref: absent, or its digest, semver and tag fields, each set or empty
References ==
    [set : {FALSE}, digest : {<<>>}, semver : {NoExp}, tag : {<<>>}]
    \cup [set : {TRUE}, digest : {<<>>, PinnedDigest},
          semver : {NoExp} \cup {e \in SemVerExps : e.op \in {"<", "?"}},
          tag : {<<>>, <<"1", ".", "9">>}]

URLResult(url, err, listed) == [url |-> url, err |-> err, listed |-> listed]

getArtifactURLTagFirst(ref, urlValid, tags, listOK) ==
    IF ~urlValid THEN {URLResult(<<>>, "invalidOCIURLError", FALSE)}
    ELSE IF ref.set /\ ref.digest # <<>>
    THEN {URLResult(Repository \o <<"@">> \o ref.digest, "", FALSE)}
    ELSE IF ref.set /\ ref.tag # <<>>
    THEN {URLResult(Repository \o <<":">> \o ref.tag, "", FALSE)}
    ELSE IF ref.set /\ ref.semver # NoExp
    THEN {IF out.err # "" THEN URLResult(<<>>, out.err, TRUE)
          ELSE URLResult(Repository \o <<":">> \o out.tag, "", TRUE) :
             out \in getTagBySemver(tags, listOK, ref.semver)}
    ELSE {URLResult(Repository, "", FALSE)}

\* getArtifactURL: the reference it can return, its error, and whether the
\* tags of the repository were listed
getArtifactURL(ref, urlValid, tags, listOK) ==
    IF ~urlValid THEN {URLResult(<<>>, "invalidOCIURLError", FALSE)}
    ELSE IF ref.set /\ ref.digest # <<>>
    THEN {URLResult(Repository \o <<"@">> \o ref.digest, "", FALSE)}
    ELSE IF ref.set /\ ref.semver # NoExp
    THEN {IF out.err # "" THEN URLResult(<<>>, out.err, TRUE)
          ELSE URLResult(Repository \o <<":">> \o out.tag, "", TRUE) :
             out \in getTagBySemver(tags, listOK, ref.semver)}
    ELSE IF ref.set /\ ref.tag # <<>>
    THEN {URLResult(Repository \o <<":">> \o ref.tag, "", FALSE)}
    ELSE {URLResult(Repository, "", FALSE)}

\* getRevision: "<tag>/<hex>", or "<hex>" for a reference by digest
getRevision(url, digestOK) ==
    LET repoName == TrimPrefix(url, Registry)
        s == Split(repoName, ":")
        tagged == IF Len(s) = 2 /\ ~Contains(repoName, "@") THEN s[2] ELSE <<>>
        repoTag == IF tagged = <<>> /\ ~Contains(repoName, "@")
                   THEN Latest ELSE tagged
    IN  IF ~digestOK THEN [revision |-> <<>>, err |-> "Digest"]
        ELSE [revision |-> IF repoTag # <<>> THEN repoTag \o <<"/">> \o Hex
                           ELSE Hex,
              err |-> ""]

\* the error reconcileSource returns for an error of getArtifactURL
ArtifactURLError(err) ==
    IF err = "invalidOCIURLError" THEN Stalling("URLInvalid")
    ELSE Generic("ReadOperationFailed")

InitResolve ==
    /\ InitHelper
    /\ call \in [fn : {"getArtifactURL"}, ref : References,
                 urlValid : BOOLEAN, tags : Listings, listOK : BOOLEAN,
                 digestOK : BOOLEAN, step : {"url"}, url : {<<>>},
                 err : {""}, listed : {FALSE}, revision : {<<>>}]

OCIRepository_getArtifactURL ==
    /\ call.fn = "getArtifactURL"
    /\ call.step = "url"
    /\ \E out \in getArtifactURL(call.ref, call.urlValid, call.tags,
                                 call.listOK) :
        call' = [call EXCEPT !.url = out.url, !.err = out.err,
                             !.listed = out.listed,
                             !.step = IF out.err = "" THEN "revision"
                                      ELSE "done"]
    /\ HelperUnchanged

OCIRepository_getRevision ==
    /\ call.fn = "getArtifactURL"
    /\ call.step = "revision"
    /\ LET out == getRevision(call.url, call.digestOK) IN
        call' = [call EXCEPT !.revision = out.revision, !.err = out.err,
                             !.step = "done"]
    /\ HelperUnchanged

NextResolve ==
    \/ OCIRepository_getArtifactURL
    \/ OCIRepository_getRevision

SpecResolve == InitResolve /\ [][NextResolve]_vars

-----------------------------------------------------------------------------
(* The OCIRepository reconciler on objects that ask for the verification of *)
(* the artifact's signature, on secure and insecure registries              *)

VerifiedObjects ==
    {[NewObject(FALSE) EXCEPT !.verify = v, !.insecure = i] :
        v \in BOOLEAN, i \in BOOLEAN}

\* the user sets or unsets spec.verify or spec.insecure
UserEditVerify ==
    /\ Idle
    /\ Exists(api)
    /\ api.generation < MaxGen
    /\ \E c \in {"verify", "insecure"} :
        Touch([api EXCEPT !.generation = @ + 1,
                          !.verify = IF c = "verify" THEN ~@ ELSE @,
                          !.insecure = IF c = "insecure" THEN ~@ ELSE @])
    /\ stable' = FALSE
    /\ UNCHANGED <<files, up>>

InitVerify ==
    /\ InitWith(VerifiedObjects)
    /\ kind = "OCIRepository"
    /\ call = NoCall

NextVerify ==
    \/ OCIRepository_Reconcile
    \/ OCIRepository_reconcile
    \/ OCIRepository_reconcileStorage
    \/ OCIRepository_reconcileSource
    \/ OCIRepository_reconcileArtifact
    \/ OCIRepository_reconcileLoop
    \/ OCIRepository_notify
    \/ OCIRepository_SummarizeAndPatch
    \/ Return
    \/ UserEditVerify
    \/ RequestReconcile
    \/ UpstreamChange

SpecVerify == InitVerify /\ [][NextVerify]_vars

-----------------------------------------------------------------------------
(* verifySignature of the OCIRepository reconciler, provider cosign          *)

\* strings.HasSuffix
HasSuffix(s, suffix) ==
    /\ Len(s) >= Len(suffix)
    /\ SubSeq(s, Len(s) - Len(suffix) + 1, Len(s)) = suffix

\* the names a secret can hold: "a.pub", "b.pub" and "c"
SecretNames ==
    {<<"a", ".", "p", "u", "b">>, <<"b", ".", "p", "u", "b">>, <<"c">>}

\* the data of an entry: not a public key, a public key that did not sign
\* the artifact, or the public key that signed it
SecretData == {"garbage", "other", "signer"}

\* the secrets: Data of corev1.Secret
Secrets == UNION {[names -> SecretData] : names \in SUBSET SecretNames}

\* the orders in which a range over the map can visit its keys
IterationOrders(secret) ==
    LET n == Cardinality(DOMAIN secret) IN
    {order \in [1 .. n -> DOMAIN secret] :
        \A i, j \in 1 .. n : i # j => order[i] # order[j]}

\* the loop over the entries of the secret, visited in the given order: the
\* error it ends with, or "" once a signature is verified
RECURSIVE VerifyWithKeys(_, _)
VerifyWithKeys(secret, order) ==
    IF order = <<>> THEN "no matching signatures"
    ELSE LET k == Head(order) IN
         IF ~HasSuffix(k, <<".", "p", "u", "b">>)
         THEN VerifyWithKeys(secret, Tail(order))
         ELSE IF secret[k] = "garbage" THEN "NewCosignVerifier"
         ELSE IF secret[k] = "other" THEN VerifyWithKeys(secret, Tail(order))
         ELSE ""

\* what keyless verification can meet
KeylessOutcomes == {"verifier", "error", "unsigned", "signed"}

\* spec.verify.provider: cosign, or a provider the switch has no case for
VerifyProviders == {"cosign", "notation"}

\* verifySignature: the errors it can return, "" for nil; nothing is
\* verified, and nil is returned, for a provider other than cosign
verifySignature(provider, secretRef, getOK, secret, keyless) ==
    IF provider # "cosign" THEN {""}
    ELSE IF secretRef
    THEN IF ~getOK THEN {"Get"}
         ELSE {VerifyWithKeys(secret, order) : order \in IterationOrders(secret)}
    ELSE IF keyless = "verifier" THEN {"NewCosignVerifier"}
    ELSE IF keyless = "error" THEN {"VerifyImageSignatures"}
    ELSE IF keyless = "signed" THEN {""}
    ELSE {"no matching signatures"}

InitSignature ==
    /\ InitHelper
    /\ call \in [fn : {"verifySignature"}, provider : VerifyProviders,
                 secretRef : BOOLEAN,
                 getOK : BOOLEAN, secret : Secrets,
                 keyless : KeylessOutcomes, done : {FALSE}, err : {""}]
    /\ (call.secretRef => call.keyless = "signed")
    /\ (~call.secretRef => call.getOK /\ DOMAIN call.secret = {})

OCIRepository_verifySignature ==
    /\ call.fn = "verifySignature"
    /\ ~call.done
    /\ \E e \in verifySignature(call.provider, call.secretRef, call.getOK,
                                call.secret, call.keyless) :
        call' = [call EXCEPT !.done = TRUE, !.err = e]
    /\ HelperUnchanged

NextSignature == OCIRepository_verifySignature

SpecSignature == InitSignature /\ [][NextSignature]_vars

-----------------------------------------------------------------------------
(* The temporary credentials file of RegistryClientGenerator in             *)
(* HelmRepositoryOCIReconciler.reconcile, in buildFromHelmRepository and in *)
(* the dependency-download callback that buildFromTarballArtifact hands to  *)
(* the dependency manager                                                   *)

\* repositories of dependencies the callback is called for in one build
MaxDeps == 3

CredentialProcs == {"reconcile", "buildFromHelmRepository",
                    "buildFromTarballArtifact"}

InitCredentials ==
    /\ InitHelper
    /\ call \in [fn : {"credentials"}, proc : CredentialProcs,
                 isLogin : BOOLEAN, deps : 0 .. MaxDeps, step : {"generate"},
                 file : {0}, created : {0}, files : {{}},
                 deferred : {FALSE}, downloaders : {{}}, failed : {""}]
    /\ (call.proc # "buildFromTarballArtifact" => call.deps = 0)
    /\ (call.proc = "buildFromTarballArtifact" => call.deps > 0)

\* the step after the registry client is generated
AfterGenerate(proc) ==
    IF proc = "buildFromHelmRepository" THEN "verify" ELSE "construct"

\* r.RegistryClientGenerator(loginOpt != nil): an error, or a client with
\* an optional credentials file; reconcile and buildFromHelmRepository then
\* defer the removal of the file
RegistryClientGenerator ==
    /\ call.fn = "credentials"
    /\ call.step = "generate"
    /\ \E ok \in BOOLEAN, withFile \in BOOLEAN :
        /\ (withFile => ok /\ call.isLogin)
        /\ call' = IF ~ok
                   THEN [call EXCEPT !.step = "return",
                                     !.failed = "RegistryClientGenerator"]
                   ELSE [call EXCEPT
                           !.step = AfterGenerate(call.proc),
                           !.file = IF withFile THEN call.created + 1 ELSE 0,
                           !.created = IF withFile THEN @ + 1 ELSE @,
                           !.files = IF withFile THEN @ \cup {call.created + 1}
                                     ELSE @,
                           !.deferred =
                               \/ @
                               \/ (withFile
                                   /\ call.proc # "buildFromTarballArtifact")]
    /\ HelperUnchanged

\* makeVerifiers of buildFromHelmRepository
makeVerifiers ==
    /\ call.fn = "credentials"
    /\ call.step = "verify"
    /\ \E ok \in BOOLEAN :
        call' = IF ok THEN [call EXCEPT !.step = "construct"]
                ELSE [call EXCEPT !.step = "return", !.failed = "makeVerifiers"]
    /\ HelperUnchanged

\* the callback after NewOCIChartRepository failed: it removes the file
CallbackConstructFailed(c) ==
    [c EXCEPT !.files = @ \ {c.file}, !.file = 0, !.step = "return",
              !.failed = "NewOCIChartRepository"]

\* repository.NewOCIChartRepository
NewOCIChartRepository ==
    /\ call.fn = "credentials"
    /\ call.step = "construct"
    /\ \E ok \in BOOLEAN :
        call' = IF ok THEN [call EXCEPT !.step = "login"]
                ELSE IF call.proc = "buildFromTarballArtifact"
                THEN CallbackConstructFailed(call)
                ELSE [call EXCEPT !.step = "return",
                                  !.failed = "NewOCIChartRepository"]
    /\ HelperUnchanged

CallbackLoginFailedNoClear(c) ==
    [c EXCEPT !.file = 0, !.step = "return", !.failed = "Login"]

\* the callback after Login failed: ociChartRepo.Clear() removes the file
\* the repository was given with WithCredentialsFile
CallbackLoginFailed(c) ==
    [c EXCEPT !.files = @ \ {c.file}, !.file = 0, !.step = "return",
              !.failed = "Login"]

\* the callback returns the repository to the dependency manager, which
\* keeps it and goes on to the next dependency or ends the build
CallbackReturned(c) ==
    [c EXCEPT !.downloaders = @ \cup ({c.file} \ {0}),
              !.file = 0,
              !.deps = @ - 1,
              !.step = IF c.deps > 1 THEN "generate" ELSE "build"]

\* ociChartRepo.Login(loginOpt), when login options are configured
Login ==
    /\ call.fn = "credentials"
    /\ call.step = "login"
    /\ \E ok \in BOOLEAN :
        /\ (~call.isLogin => ok)
        /\ call' = IF call.proc = "buildFromTarballArtifact"
                   THEN IF ok THEN CallbackReturned(call)
                        ELSE CallbackLoginFailed(call)
                   ELSE IF ~ok
                   THEN [call EXCEPT !.step = "return", !.failed = "Login"]
                   ELSE IF call.proc = "buildFromHelmRepository"
                   THEN [call EXCEPT !.step = "build"]
                   ELSE [call EXCEPT !.step = "return"]
    /\ HelperUnchanged

\* cb.Build
Build ==
    /\ call.fn = "credentials"
    /\ call.step = "build"
    /\ \E ok \in BOOLEAN :
        call' = [call EXCEPT !.step = "return",
                             !.failed = IF ok THEN "" ELSE "Build"]
    /\ HelperUnchanged

\* the procedure returns and its deferred functions run: os.Remove of the
\* credentials file, and dm.Clear() of the dependency manager, which clears
\* every repository it keeps
CredentialsReturn ==
    /\ call.fn = "credentials"
    /\ call.step = "return"
    /\ call' = [call EXCEPT
                   !.step = "returned",
                   !.files = IF call.proc = "buildFromTarballArtifact"
                             THEN @ \ call.downloaders
                             ELSE IF call.deferred THEN @ \ {call.file}
                             ELSE @,
                   !.downloaders = {}]
    /\ HelperUnchanged

NextCredentials ==
    \/ RegistryClientGenerator
    \/ makeVerifiers
    \/ NewOCIChartRepository
    \/ Login
    \/ Build
    \/ CredentialsReturn

SpecCredentials == InitCredentials /\ [][NextCredentials]_vars

-----------------------------------------------------------------------------
(* The index of HelmCharts by their source, and the requests the HelmChart  *)
(* reconciler makes when a HelmRepository, GitRepository or Bucket changes  *)

\* HelmCharts in the cluster
MaxCharts == 2

SourceKinds == {<<"HelmRepository">>, <<"GitRepository">>, <<"Bucket">>}

SourceNames == {<<"a">>, <<"b">>}

\* revisions of artifacts; 0 is the empty revision of a chart that observed
\* none
SourceRevisions == 1 .. 2

\* fmt.Sprintf("%s/%s", kind, name)
SourceIndexKey(k, name) == k \o <<"/">> \o name

\* indexHelmChartBySource: the values a HelmChart is indexed under
indexHelmChartBySource(hc) ==
    {SourceIndexKey(hc.sourceRef.kind, hc.sourceRef.name)}

\* r.List with client.MatchingFields on the index and no namespace: the
\* HelmCharts of all namespaces indexed under the key, in the order of the
\* list
List(charts, key) ==
    SelectSeq([i \in 1 .. MaxCharts |-> i],
              LAMBDA i : key \in indexHelmChartBySource(charts[i]))

requestsForChangeOfAll(k, repo, charts, listOK) ==
    IF ~repo.hasArtifact THEN <<>>
    ELSE IF ~listOK THEN <<>>
    ELSE List(charts, SourceIndexKey(k, repo.name))

\* requestsForHelmRepositoryChange, requestsForGitRepositoryChange and
\* requestsForBucketChange for their kind k: the requests for the HelmCharts
\* of the list that did not observe the revision of the artifact of repo
requestsForChange(k, repo, charts, listOK) ==
    IF ~repo.hasArtifact THEN <<>>
    ELSE IF ~listOK THEN <<>>
    ELSE SelectSeq(List(charts, SourceIndexKey(k, repo.name)),
                   LAMBDA i : charts[i].observedSourceArtifactRevision
                                  # repo.revision)

Namespaces == {"ns1", "ns2"}

\* a HelmChart refers to a source of its own namespace by kind and name
HelmCharts ==
    [namespace : Namespaces,
     sourceRef : [kind : SourceKinds, name : SourceNames],
     observedSourceArtifactRevision : {0} \cup SourceRevisions]

Upstreams ==
    [namespace : Namespaces, kind : SourceKinds, name : SourceNames,
     hasArtifact : {TRUE}, revision : SourceRevisions]
    \cup [namespace : Namespaces, kind : SourceKinds, name : SourceNames,
          hasArtifact : {FALSE}, revision : {0}]

InitIndex ==
    /\ InitReconciler
    /\ kind = "HelmChart"
    /\ ~api.suspend
    /\ call \in [fn : {"requestsForChange"},
                 charts : [1 .. MaxCharts -> HelmCharts],
                 repo : Upstreams, listOK : BOOLEAN, done : {FALSE},
                 reqs : {<<>>}]

\* the watch of kind k hands the changed object to its handler
RequestsFor(k) ==
    /\ call.fn = "requestsForChange"
    /\ ~call.done
    /\ call.repo.kind = k
    /\ call' = [call EXCEPT
                  !.done = TRUE,
                  !.reqs = requestsForChange(k, call.repo, call.charts,
                                             call.listOK)]
    /\ HelperUnchanged

requestsForHelmRepositoryChange == RequestsFor(<<"HelmRepository">>)

requestsForGitRepositoryChange == RequestsFor(<<"GitRepository">>)

requestsForBucketChange == RequestsFor(<<"Bucket">>)

NextIndex ==
    \/ requestsForHelmRepositoryChange
    \/ requestsForGitRepositoryChange
    \/ requestsForBucketChange

SpecIndex == InitIndex /\ [][NextIndex]_vars

-----------------------------------------------------------------------------
(* The version metadata buildFromTarballArtifact gives the chart builder    *)

\* the characters of the revision kept in the version metadata
ShortRevision == 12

DigitChar(d) == CHOOSE c \in Digits : DigitVal(c) = d

\* strconv.FormatInt(n, 10) of a generation
RECURSIVE FormatInt(_)
FormatInt(n) ==
    IF n < 10 THEN <<DigitChar(n)>>
    ELSE FormatInt(n \div 10) \o <<DigitChar(n % 10)>>

\* a hexadecimal string of n characters
Sha(n) == [i \in 1 .. n |-> <<"a", "1", "b", "2", "c">>[((i - 1) % 5) + 1]]

\* revisions of source artifacts: empty, shorter than, as long as and longer
\* than the short revision, with and without a branch before the hash
SourceArtifactRevisions ==
    {<<>>, Sha(3), Sha(ShortRevision - 1), Sha(ShortRevision),
     Sha(ShortRevision + 1), <<"m", "/">>, <<"m", "/">> \o Sha(5),
     <<"m", "/">> \o Sha(ShortRevision),
     <<"m", "/", "n", "/">> \o Sha(ShortRevision + 3)}

\* rev[0:12]: the slice of a string shorter than its bound panics
Slice(rev, n) ==
    IF Len(rev) < n THEN [panic |-> TRUE, value |-> <<>>]
    ELSE [panic |-> FALSE, value |-> SubSeq(rev, 1, n)]

\* the revision of the source for the version metadata: for a
\* GitRepository the last of its segments, for a GitRepository or Bucket
\* its first characters
ShortenedRevision(sourceKind, revision) ==
    LET split == Split(revision, "/")
        rev == IF sourceKind = "GitRepository" THEN split[Len(split)]
               ELSE revision
    IN  IF sourceKind \in {"GitRepository", "Bucket"}
        THEN Slice(rev, ShortRevision)
        ELSE [panic |-> FALSE, value |-> rev]

\* opts.VersionMetadata of buildFromTarballArtifact
VersionMetadata(sourceKind, revision, strategy, valuesFiles, generation) ==
    LET short == IF strategy = "Revision"
                 THEN ShortenedRevision(sourceKind, revision)
                 ELSE [panic |-> FALSE, value |-> <<>>]
        dot == IF short.value # <<>> THEN <<".">> ELSE <<>>
    IN  IF short.panic THEN short
        ELSE IF valuesFiles
        THEN [panic |-> FALSE,
              value |-> short.value \o dot \o FormatInt(generation)]
        ELSE short

InitVersion ==
    /\ InitReconciler
    /\ kind = "HelmChart"
    /\ ~api.suspend
    /\ call \in [fn : {"VersionMetadata"},
                 sourceKind : {"GitRepository", "Bucket"},
                 revision : SourceArtifactRevisions,
                 strategy : {"Revision", "ChartVersion"},
                 valuesFiles : BOOLEAN, generation : 1 .. MaxGen,
                 done : {FALSE}, panic : {FALSE}, value : {<<>>}]

HelmChart_buildFromTarballArtifact ==
    /\ call.fn = "VersionMetadata"
    /\ ~call.done
    /\ LET out == VersionMetadata(call.sourceKind, call.revision,
                                  call.strategy, call.valuesFiles,
                                  call.generation)
       IN  call' = [call EXCEPT !.done = TRUE, !.panic = out.panic,
                                !.value = out.value]
    /\ HelperUnchanged

NextVersion == HelmChart_buildFromTarballArtifact

SpecVersion == InitVersion /\ [][NextVersion]_vars

-----------------------------------------------------------------------------
(* Deletion: the reconciliations of a suspended object before and after the *)
(* user deletes it, re-executed for as long as the object exists.  The      *)
(* object may carry the finalizer of another controller, which keeps it in  *)
(* the API server after the source finalizer is removed.                    *)

InitDelete ==
    /\ InitWith({[NewObject(TRUE) EXCEPT !.otherFinalizers = f] : f \in BOOLEAN})
    /\ call = NoCall

\* the steps of the reconciliations of the object
DeleteSteps ==
    \/ HelmChart_Reconcile
    \/ HelmChart_reconcileDelete
    \/ HelmChart_SummarizeAndPatch
    \/ OCIRepository_Reconcile
    \/ OCIRepository_reconcileDelete
    \/ OCIRepository_SummarizeAndPatch
    \/ HelmRepositoryOCI_Reconcile
    \/ HelmRepositoryOCI_patch
    \/ Return

NextDelete ==
    \/ DeleteSteps
    \/ RequestReconcile
    \/ UserDelete

\* the controller runtime re-executes the reconciliation of an object that
\* exists: a step of a reconciliation that can be taken is taken
SpecDelete == InitDelete /\ [][NextDelete]_vars /\ WF_vars(DeleteSteps)

-----------------------------------------------------------------------------
(* Properties *)

\* C1: the finalizer of a HelmChart or OCIRepository is removed only by a
\* reconciliation of an object under deletion whose removal of the whole
\* artifact subtree succeeded; when the removal fails the reconciliation
\* returns the error and the finalizer stays; the subtree of an object that
\* is gone is empty.
C1_FinalizerAfterRemoval ==
    Reconciled =>
        /\ (start.finalizer /\ ~obj.finalizer) =>
              /\ exit = "delete"
              /\ start.deleting
              /\ resErr = NoErr
              /\ files = <<>>
        /\ (exit = "delete" /\ pc \in {"summarize", "done"} /\ resErr # NoErr) =>
              /\ obj.finalizer
              /\ api.finalizer
              /\ (pc = "done" => retErr # NoErr)
        /\ (~Exists(api) => files = <<>>)

C1_Witness ==
    /\ Reconciled
    /\ pc = "done"
    /\ exit = "delete"
    /\ "GarbageCollectionSucceeded" \in events
    /\ ~api.finalizer
    /\ files = <<>>

\* C2, for the HelmRepository reconciler: the reconciliation of a suspended
\* object executes nothing beyond the fetch and leaves the status as it was.
C2_SuspendedHelmRepositoryUntouched ==
    (kind = "HelmRepository" /\ exit = "suspend" /\ pc = "done") =>
        /\ ran = {}
        /\ Status(api) = Status(start)

\* C3: a reconciliation of a HelmRepository that did not evaluate the
\* current generation (suspended, under deletion, finalizer just added)
\* never advances observedGeneration to the current generation.
C3_ObservedGenerationEvaluated ==
    (/\ kind = "HelmRepository"
     /\ pc = "done"
     /\ exit \in {"suspend", "delete", "finalizer"}
     /\ start.observedGeneration # start.generation)
        => api.observedGeneration # api.generation

\* C4: after a reconciliation of a HelmChart or OCIRepository that ends
\* with Success and no error the artifact is set, its file exists in storage
\* and the file has the checksum recorded in the artifact.
C4_ArtifactDurability ==
    (/\ Reconciled
     /\ pc = "done"
     /\ exit = "reconcile"
     /\ res = ResultSuccess
     /\ retErr = NoErr)
        => /\ HasArtifact(api)
           /\ ArtifactExist(files, api.artifact)
           /\ FileAt(files, LocalPath(api.artifact)).sum = api.artifact.checksum

\* C5: when reconcileStorage returns, the artifact of the status is empty
\* or its file exists; when the file of the advertised artifact was missing,
\* the artifact and the URL are cleared, ArtifactInStorage is removed and
\* the object is Reconciling.
C5_StoragePostcondition ==
    (Reconciled /\ pc = "loop" /\ last = "storage") =>
        /\ (HasArtifact(obj) => ArtifactExist(files, obj.artifact))
        /\ artifactMissing =>
              /\ ~HasArtifact(obj)
              /\ obj.url = ""
              /\ ~Has(obj, ArtifactInStorage)
              /\ IsReconciling(obj)

C5_Witness ==
    /\ Reconciled
    /\ pc = "loop"
    /\ last = "storage"
    /\ artifactMissing
    /\ HasArtifact(start)

\* C6 as stated: the reconciliation that finds the file of the advertised
\* artifact missing ends with the artifact of the status cleared.
C6_ClearedAtEndOfPass1 ==
    (Reconciled /\ pc = "done" /\ artifactMissing) => ~HasArtifact(api)

\* C6 amended: the storage phase of the reconciliation that finds the file
\* missing clears the artifact, and the same reconciliation rebuilds it: it
\* ends with the artifact set exactly when its artifact phase succeeded, and
\* a reconciliation that succeeds has written the file again.
C6_RebuiltInPass1 ==
    (Reconciled /\ artifactMissing) =>
        /\ (pc = "loop" /\ last = "storage") => ~HasArtifact(obj)
        /\ pc = "done" =>
              (HasArtifact(obj) <=>
                  (last = "artifact" /\ phaseRes = ResultSuccess /\ phaseErr = NoErr))
        /\ (pc = "done" /\ res = ResultSuccess /\ resErr = NoErr) =>
              /\ HasArtifact(obj)
              /\ LocalPath(obj.artifact) \in wrote
              /\ ArtifactExist(files, obj.artifact)

C6_Witness ==
    /\ Reconciled
    /\ pc = "done"
    /\ artifactMissing
    /\ HasArtifact(api)
    /\ LocalPath(api.artifact) \in wrote
    /\ ArtifactExist(files, api.artifact)

\* C7: a reconciliation that follows a successful one with the same spec,
\* upstream revision and storage writes no file, emits no new-artifact
\* event and ends with the artifact the previous one left.
C7_Idempotent ==
    (Reconciled /\ stable /\ ~Idle) =>
        /\ exit = "reconcile"
        /\ wrote = {}
        /\ events \cap {"NewArtifact", "ChartPullSucceeded",
                        "ChartPackageSucceeded"} = {}
        /\ pc = "done" =>
              /\ HasArtifact(api)
              /\ api.artifact = start.artifact

C7_Witness ==
    /\ Reconciled
    /\ stable
    /\ pc = "done"
    /\ "ArtifactUpToDate" \in events
    /\ api.artifact = start.artifact

\* C8: the reconciliation of an OCIRepository that publishes the artifact of
\* a new upstream revision without any failure emits the NewArtifact event.
C8_NewArtifactOnNewRevision ==
    (/\ kind = "OCIRepository"
     /\ pc = "done"
     /\ faults = 0
     /\ HasArtifact(start)
     /\ HasArtifact(api)
     /\ api.artifact.revision # start.artifact.revision
     /\ retErr = NoErr)
        => "NewArtifact" \in events

C10_RequeueShortCircuits ==
    (Reconciled /\ last # "none" /\ phaseRes = ResultRequeue /\ pc # "loop") =>
        /\ pc \in {"summarize", "done"}
        /\ res = ResultRequeue
        /\ resErr = NoErr
        /\ ran = IF last = "storage" THEN {"storage"}
                 ELSE IF last = "source" THEN {"storage", "source"}
                 ELSE {"storage", "source", "artifact"}

C10_Witness ==
    /\ Reconciled
    /\ last = "storage"
    /\ phaseRes = ResultRequeue
    /\ phaseErr # NoErr
    /\ pc = "summarize"
    /\ res = ResultRequeue
    /\ resErr = NoErr

\* C11: when the storage, source or artifact phase of a HelmChart or
\* OCIRepository reconciliation returns an error, the object carries a
\* recorded failure condition as the phase returns: StorageOperationFailed,
\* FetchFailed or BuildFailed is True, or SourceVerified is False.
C11_ErrorRecordsCondition ==
    (Reconciled /\ pc = "loop" /\ phaseErr # NoErr) =>
        \/ IsTrue(obj, StorageOperationFailed)
        \/ IsTrue(obj, FetchFailed)
        \/ IsTrue(obj, BuildFailed)
        \/ IsFalse(obj, SourceVerified)

C13_HandledOnlyAfterFullCycle ==
    (/\ kind = "HelmRepository"
     /\ pc = "done"
     /\ start.requestedAt # ""
     /\ start.lastHandledReconcileAt # start.requestedAt
     /\ api.lastHandledReconcileAt = start.requestedAt) =>
        /\ exit = "reconcile"
        /\ "reconcile" \in ran
        /\ retErr = NoErr

C15_PatchedOnceAtEnd ==
    (~Idle /\ pc # "done") => api = start

\* C15 (amended): the run ends with the patch of the summarized object; a
\* run that adds the finalizer, handles the deletion, finds the object
\* suspended or finds its type changed issues no earlier patch; a run that
\* reconciles patches the object as Reconciling at the start of reconcile
\* when the generation is not the observed one or a reconciliation is
\* requested, and its phases may patch again, each time an object that is
\* Reconciling.
C15_PatchedAtEndAndWhileProgressing ==
    /\ (~Idle /\ pc # "done" /\ exit # "reconcile") => api = start
    /\ (pc = "storage") =>
          api = IF \/ start.generation # start.observedGeneration
                   \/ start.requestedAt # start.lastHandledReconcileAt
                THEN Progressing(start)
                ELSE start
    /\ (~Idle /\ pc # "done" /\ api # start) =>
          /\ exit = "reconcile"
          /\ IsReconciling(api)
          /\ api.finalizer = start.finalizer
          /\ api.lastHandledReconcileAt = start.lastHandledReconcileAt
    /\ (pc = "done" /\ retErr # PatchErr) => api = obj

C15_Witness ==
    /\ pc = "storage"
    /\ exit = "reconcile"
    /\ api # start
    /\ IsReconciling(api)
    /\ ~IsReconciling(start)

\* the tags of a set that parse as versions and match the constraint
Matching(tags, exp) ==
    {t \in tags : ParseVersion(t).ok /\ Check(exp, ParseVersion(t))}

\* the tags of a set that no tag of the set precedes
Highest(tags) ==
    {t \in tags :
        \A u \in tags : ~LessThan(ParseVersion(t), ParseVersion(u))}

\* the listings of the tags of listing l in another order
Reorderings(l) == {m \in Listings : Range(m) = Range(l)}

\* C16: the tag getTagBySemver chooses depends only on the set of tags, not
\* on the order in which they are listed, and is the lexicographic maximum
\* of the tags that parse as versions and match the constraint.
C16_LexicographicMaximum ==
    (call.fn = "getTagBySemver" /\ call.done /\ call.err = "") =>
        LET M == Matching(Range(call.tags), call.exp) IN
        /\ call.tag \in M
        /\ \A u \in M \ {call.tag} : StringLess(u, call.tag)
        /\ \A m \in Reorderings(call.tags) :
              getTagBySemver(m, call.listOK, call.exp)
                  = {TagResult(call.tag, "")}

\* C16 (amended): the chosen tag is one of the tags of highest
\* semantic-version precedence among those that parse and match; which tags
\* can be chosen, and whether the call fails, depends only on the set of
\* tags, and the choice is unique unless two tags denote the same version.
C16_HighestPrecedence ==
    (call.fn = "getTagBySemver" /\ call.done) =>
        LET best == Highest(Matching(Range(call.tags), call.exp)) IN
        /\ call.err = "" => call.tag \in best
        /\ \A m \in Reorderings(call.tags) :
              getTagBySemver(m, call.listOK, call.exp)
                  = IF call.err = ""
                    THEN {TagResult(t, "") : t \in best}
                    ELSE {TagResult(NoTag, call.err)}

C16_Witness ==
    /\ call.fn = "getTagBySemver"
    /\ call.done
    /\ call.err = ""
    /\ Len(call.tags) = MaxTags
    /\ call.tags[1] = call.tag
    /\ \E u \in Matching(Range(call.tags), call.exp) :
          /\ StringLess(call.tag, u)
          /\ LessThan(ParseVersion(u), ParseVersion(call.tag))

\* C17: getTagBySemver returns a listed tag that parses as a version and
\* satisfies the constraint and that no other such tag precedes; tags that
\* do not parse are skipped; when no tag parses and matches, it returns an
\* error and no tag.
C17_MatchOfHighestPrecedence ==
    (call.fn = "getTagBySemver" /\ call.done /\ call.listOK
        /\ NewConstraint(call.exp)) =>
        IF \E t \in Range(call.tags) :
              ParseVersion(t).ok /\ Check(call.exp, ParseVersion(t))
        THEN /\ call.err = ""
             /\ call.tag \in Range(call.tags)
             /\ ParseVersion(call.tag).ok
             /\ Check(call.exp, ParseVersion(call.tag))
             /\ \A u \in Range(call.tags) :
                   (ParseVersion(u).ok /\ Check(call.exp, ParseVersion(u))) =>
                       ~LessThan(ParseVersion(call.tag), ParseVersion(u))
        ELSE /\ call.err = "no match found"
             /\ call.tag = NoTag

C17_Witness ==
    /\ call.fn = "getTagBySemver"
    /\ call.done
    /\ call.err = ""
    /\ call.exp.op = "<"
    /\ \E i, j \in 1 .. Len(call.tags) :
          /\ i < j
          /\ ~ParseVersion(call.tags[i]).ok
          /\ call.tags[j] = call.tag
    /\ \E u \in Range(call.tags) :
          ParseVersion(u).ok /\ ~Check(call.exp, ParseVersion(u))

\* C18: the reference getArtifactURL chooses follows the priority digest,
\* semVer, tag, latest: a set digest wins over semVer and tag and no tags
\* are listed; a set semVer wins over tag; with no field set the bare
\* repository is used, and its revision is reported under the tag latest.
C18_ReferencePriority ==
    (call.fn = "getArtifactURL" /\ call.step # "url" /\ call.urlValid) =>
        LET r == call.ref
            resolved == call.step = "done" /\ call.err = ""
        IN
        /\ (r.set /\ r.digest # <<>>) =>
              /\ call.url = Repository \o <<"@">> \o r.digest
              /\ ~call.listed
              /\ resolved => call.revision = Hex
        /\ (r.set /\ r.digest = <<>> /\ r.semver # NoExp) =>
              /\ call.listed
              /\ IF call.url = <<>>
                 THEN call.step = "done" /\ call.err # ""
                 ELSE \E t \in Highest(Matching(Range(call.tags), r.semver)) :
                        /\ call.url = Repository \o <<":">> \o t
                        /\ resolved => call.revision = t \o <<"/">> \o Hex
        /\ (r.set /\ r.digest = <<>> /\ r.semver = NoExp /\ r.tag # <<>>) =>
              /\ call.url = Repository \o <<":">> \o r.tag
              /\ ~call.listed
              /\ resolved => call.revision = r.tag \o <<"/">> \o Hex
        /\ (~r.set \/ (r.digest = <<>> /\ r.semver = NoExp /\ r.tag = <<>>)) =>
              /\ call.url = Repository
              /\ ~call.listed
              /\ resolved => call.revision = Latest \o <<"/">> \o Hex

C18_Witness ==
    /\ call.fn = "getArtifactURL"
    /\ call.step = "done"
    /\ call.err = ""
    /\ call.ref.set
    /\ call.ref.digest = <<>>
    /\ call.ref.semver # NoExp
    /\ call.ref.tag # <<>>
    /\ call.listed
    /\ call.url # Repository \o <<":">> \o call.ref.tag
    /\ call.revision # <<>>

\* C19: a reconciliation of an OCIRepository with spec.verify set and
\* spec.insecure true that reaches the verification of the signature fails
\* it with reason VerificationError: SourceVerified is False, the source
\* phase returns an error, no signature check is attempted and no artifact
\* is pulled or stored in that run.
C19_InsecureFailsVerification ==
    (/\ kind = "OCIRepository"
     /\ last = "source"
     /\ start.verify
     /\ start.insecure
     /\ obj.urlValid
     /\ build # NoBuild) =>
        /\ IsFalse(obj, SourceVerified)
        /\ obj.conds[SourceVerified].reason = "VerificationError"
        /\ phaseRes = ResultEmpty
        /\ phaseErr = Generic("VerificationError")
        /\ "verifySignature" \notin ran
        /\ build.path # TmpPath
        /\ wrote = {}
        /\ "artifact" \notin ran
        /\ pc \in {"loop", "notify", "summarize", "done"}
        /\ (pc = "done" => retErr # NoErr /\ ~IsReady(obj))

C19_Witness ==
    /\ kind = "OCIRepository"
    /\ start.verify
    /\ start.insecure
    /\ HasArtifact(start)
    /\ pc = "done"
    /\ last = "source"
    /\ phaseErr = Generic("VerificationError")
    /\ IsFalse(api, SourceVerified)
    /\ api.artifact = start.artifact

\* C20: with a secret referenced, verifySignature succeeds if and only if
\* at least one entry of the secret whose name ends in ".pub" yields a valid
\* signature; a failure with one candidate key, the failure to construct a
\* verifier from it included, does not prevent success through another key.
C20_AnyKeyVerifies ==
    (call.fn = "verifySignature" /\ call.done /\ call.secretRef
        /\ call.getOK /\ call.provider = "cosign") =>
        (call.err = "" <=>
            \E k \in DOMAIN call.secret :
                /\ HasSuffix(k, <<".", "p", "u", "b">>)
                /\ call.secret[k] = "signer")

\* C21: a failed verification of the signature is persistent: the
\* reconciliation in which verifySignature fails ends with Stalled True,
\* Ready False and SourceVerified False, and returns no error, so that the
\* object is not retried while its generation stays the same.
C21_VerificationFailureStalls ==
    (/\ kind = "OCIRepository"
     /\ pc = "done"
     /\ last = "source"
     /\ "verifySignature" \in ran
     /\ phaseErr # NoErr
     /\ phaseErr.reason = "VerificationError") =>
        /\ IsStalled(obj)
        /\ IsFalse(obj, Ready)
        /\ IsFalse(obj, SourceVerified)
        /\ retErr = NoErr

\* C22: every temporary credentials file that RegistryClientGenerator
\* returned is deleted when the procedure has returned, on every exit path:
\* success, failure of the login, of the construction of the repository, of
\* the verifiers or of the build.
C22_CredentialsFileRemoved ==
    (call.fn = "credentials" /\ call.step = "returned") => call.files = {}

C22_Witness ==
    /\ call.fn = "credentials"
    /\ call.step = "returned"
    /\ call.proc = "buildFromTarballArtifact"
    /\ call.created >= 2
    /\ call.failed = "Login"
    /\ call.files = {}

\* C23: when reconcile of the HelmRepository reconciler returns, the object
\* does not have Stalled=True together with a Reconciling condition, and a
\* Reconciling condition that remains has the reason ProgressingWithRetry.
C23_StalledExcludesReconciling ==
    (kind = "HelmRepository" /\ pc = "summarize" /\ "reconcile" \in ran) =>
        /\ ~(IsStalled(obj) /\ Has(obj, Reconciling))
        /\ (Has(obj, Reconciling) =>
                obj.conds[Reconciling].reason = "ProgressingWithRetry")

C23_Witness ==
    /\ kind = "HelmRepository"
    /\ pc = "summarize"
    /\ "reconcile" \in ran
    /\ Has(obj, Reconciling)
    /\ obj.conds[Reconciling].reason = "ProgressingWithRetry"
    /\ resErr # NoErr

\* C24: one reconciliation of a HelmRepository emits at most one event for a
\* change of readiness: a Normal event exactly when the object was not Ready
\* before the run and is Ready after it, a Warning event exactly when it was
\* Ready before and is not Ready after, and none when readiness is unchanged.
C24_OneReadyTransitionEvent ==
    (kind = "HelmRepository" /\ pc = "summarize" /\ "reconcile" \in ran) =>
        /\ ("Normal" \in events <=> (~IsReady(start) /\ IsReady(obj)))
        /\ ("Warning" \in events <=> (IsReady(start) /\ ~IsReady(obj)))
        /\ ~({"Normal", "Warning"} \subseteq events)
        /\ (IsReady(start) = IsReady(obj) => events = {})

C24_Witness ==
    /\ kind = "HelmRepository"
    /\ pc = "summarize"
    /\ "reconcile" \in ran
    /\ IsReady(start)
    /\ ~IsReady(obj)
    /\ events = {"Warning", "AuthenticationFailed"}

RegistryRequests == {"Login", "ListTags", "Digest", "Pull"}

\* the run of a reconciler on an object with an invalid URL has ended
InvalidURLRunEnded ==
    /\ pc = "done"
    /\ ~start.urlValid
    /\ \/ kind = "HelmRepository" /\ "reconcile" \in ran
       \/ kind = "OCIRepository" /\ "source" \in ran
    /\ retErr # PatchErr

C26_InvalidSemverStalls ==
    (/\ call.fn = "getArtifactURL"
     /\ call.step = "done"
     /\ call.urlValid
     /\ call.listOK
     /\ call.ref.set
     /\ call.ref.digest = <<>>
     /\ call.ref.semver # NoExp
     /\ ~NewConstraint(call.ref.semver)) =>
        /\ call.err # ""
        /\ ArtifactURLError(call.err).type = "Stalling"

\* the source phase of a HelmChart found its source without an artifact
NoSourceArtifactFound ==
    /\ (/\ kind = "HelmChart"
        /\ pc = "loop"
        /\ last = "source"
        /\ ~up.ready
        /\ ~up.oci
        /\ phaseErr.reason \notin {"SourceUnavailable",
                                   "UnsupportedSourceKind"}) =>
            /\ IsTrue(obj, FetchFailed)
            /\ obj.conds[FetchFailed].reason = "NoSourceArtifact"
            /\ phaseRes = ResultRequeue
            /\ phaseErr = NoErr
            /\ build = NoBuild
    /\ (/\ kind = "HelmChart"
        /\ pc = "done"
        /\ "NoSourceArtifact" \in events) =>
            /\ "artifact" \notin ran
            /\ last = "source"
            /\ res = ResultRequeue
            /\ resErr = NoErr
            /\ build = NoBuild
            /\ ~IsStalled(obj)

\* the source phase that returns Requeue leaves status.artifact as it is
NoSourceArtifactStep ==
    (/\ kind = "HelmChart"
     /\ pc = "source"
     /\ pc' = "loop"
     /\ phaseRes' = ResultRequeue) =>
        /\ obj'.artifact = obj.artifact
        /\ api'.artifact = api.artifact
        /\ files' = files

\* C27: when the source of a HelmChart exists but has no artifact in
\* storage, and is not a HelmRepository of type OCI, the source phase marks
\* FetchFailed=True with the reason NoSourceArtifact and returns Requeue
\* without an error; nothing is built, the artifact phase does not run,
\* status.artifact is unchanged and the object is not marked Stalled.
C27_NoSourceArtifactRequeues ==
    []NoSourceArtifactFound /\ [][NoSourceArtifactStep]_vars

C27_Witness ==
    /\ kind = "HelmChart"
    /\ pc = "done"
    /\ last = "source"
    /\ phaseRes = ResultRequeue
    /\ HasArtifact(start)
    /\ IsTrue(api, FetchFailed)
    /\ api.conds[FetchFailed].reason = "NoSourceArtifact"
    /\ "NoSourceArtifact" \in events

\* C28: an authentication failure ends the reconciliation with the reason
\* AuthenticationFailed recorded on the object and a returned error, which
\* requeues the object, and never sets Stalled; the error of an unconfigured
\* cloud provider is no failure: the run goes on with anonymous access.
C28_AuthenticationFailureRetried ==
    /\ (/\ kind = "HelmRepository"
        /\ pc \in {"summarize", "done"}
        /\ "reconcile" \in ran
        /\ resErr = AuthErr("AuthenticationFailed")) =>
            /\ IsFalse(obj, Ready)
            /\ obj.conds[Ready].reason = "AuthenticationFailed"
            /\ ~IsStalled(obj)
            /\ res = ResultEmpty
            /\ (pc = "done" => retErr # NoErr)
    /\ (/\ kind \in {"OCIRepository", "HelmChart"}
        /\ pc \in {"loop", "done"}
        /\ last = "source"
        /\ phaseErr = Generic("AuthenticationFailed")) =>
            /\ IsTrue(obj, FetchFailed)
            /\ obj.conds[FetchFailed].reason = "AuthenticationFailed"
            /\ phaseRes = ResultEmpty
            /\ ~IsStalled(obj)
            /\ (pc = "done" => retErr # NoErr /\ ~IsReady(obj))
    /\ (/\ "ErrUnconfiguredProvider" \in ran
        /\ pc \in {"loop", "summarize", "done"}) =>
            /\ phaseErr # Generic("AuthenticationFailed")
            /\ resErr # AuthErr("AuthenticationFailed")
            /\ ~(Has(obj, FetchFailed)
                 /\ obj.conds[FetchFailed].reason = "AuthenticationFailed")
            /\ ~(Has(obj, Ready)
                 /\ obj.conds[Ready].reason = "AuthenticationFailed")

\* the HelmCharts that reference the changed source by kind and name and
\* did not observe the revision of its artifact
OutdatedCharts ==
    {i \in 1 .. MaxCharts :
        /\ call.charts[i].sourceRef.kind = call.repo.kind
        /\ call.charts[i].sourceRef.name = call.repo.name
        /\ call.charts[i].observedSourceArtifactRevision # call.repo.revision}

\* C29: on a change of a HelmRepository, GitRepository or Bucket that has an
\* artifact, the requests are those for the HelmCharts that reference the
\* source by kind and name and whose observed revision differs from the
\* revision of the artifact, each once; a source without an artifact
\* enqueues nothing.
C29_EnqueuesOutdatedCharts ==
    (call.fn = "requestsForChange" /\ call.done) =>
        /\ (call.repo.hasArtifact /\ call.listOK) =>
            /\ {call.reqs[n] : n \in 1 .. Len(call.reqs)} = OutdatedCharts
            /\ Len(call.reqs) = Cardinality(OutdatedCharts)
        /\ ~call.repo.hasArtifact => call.reqs = <<>>

C29_Witness ==
    /\ call.fn = "requestsForChange"
    /\ call.done
    /\ call.repo.hasArtifact
    /\ call.listOK
    /\ call.reqs = <<2>>
    /\ call.charts[1].sourceRef = call.charts[2].sourceRef
    /\ call.charts[1].observedSourceArtifactRevision = call.repo.revision

\* C30: when the context is cancelled during a request to the registry in
\* the source phase (tag listing, digest lookup, pull), the phase returns
\* the error, FetchFailed is not recorded on the object and the status of
\* the object is left as it was before the run.
C30_CancellationNotRecorded ==
    (/\ kind = "OCIRepository"
     /\ pc = "loop"
     /\ last = "source"
     /\ "context canceled" \in ran) =>
        /\ phaseErr # NoErr
        /\ (IsTrue(obj, FetchFailed) => IsTrue(start, FetchFailed))
        /\ obj.conds[FetchFailed] = start.conds[FetchFailed]

\* the failure conditions of a HelmChart from the worst to the least, as
\* the summary of Ready is specified to order them
WorstFirst == <<StorageOperationFailed, BuildFailed, FetchFailed, ArtifactOutdated>>

\* the worst failure condition that is True on o
Worst(o) ==
    WorstFirst[CHOOSE i \in 1 .. Len(WorstFirst) :
                  /\ IsTrue(o, WorstFirst[i])
                  /\ \A j \in 1 .. i - 1 : ~IsTrue(o, WorstFirst[j])]

\* C31: when negative-polarity conditions of a HelmChart are True at the end
\* of a reconciliation, Ready is False with the reason of the worst of them
\* in the order StorageOperationFailed, BuildFailed, FetchFailed,
\* ArtifactOutdated; with BuildFailed and FetchFailed both True, Ready
\* takes the reason of BuildFailed.
C31_ReadyTakesWorstReason ==
    (/\ kind = "HelmChart"
     /\ pc = "done"
     /\ exit = "reconcile"
     /\ retErr # PatchErr
     /\ ~IsFalse(obj, SourceVerified)
     /\ \E i \in 1 .. Len(WorstFirst) : IsTrue(obj, WorstFirst[i])) =>
        /\ IsFalse(obj, Ready)
        /\ obj.conds[Ready].reason = obj.conds[Worst(obj)].reason

\* the first n characters of s, or s when it is shorter
Prefix(s, n) == IF Len(s) <= n THEN s ELSE SubSeq(s, 1, n)

\* the part of s after its last "/"
RECURSIVE LastSegment(_)
LastSegment(s) ==
    IF s = <<>> THEN <<>>
    ELSE IF s[Len(s)] = "/" THEN <<>>
    ELSE LastSegment(SubSeq(s, 1, Len(s) - 1)) \o <<s[Len(s)]>>

\* C32: for a HelmChart built from a GitRepository or Bucket artifact with
\* the reconcile strategy Revision, the version metadata is the revision
\* (for Git its last segment) shortened to at most its first 12 characters,
\* followed by ".<generation>" when values files are set; computing it does
\* not panic, whatever the length of the revision.
C32_VersionMetadataShortened ==
    (/\ call.fn = "VersionMetadata"
     /\ call.done
     /\ call.strategy = "Revision") =>
        LET rev == IF call.sourceKind = "GitRepository"
                   THEN LastSegment(call.revision)
                   ELSE call.revision
            short == Prefix(rev, ShortRevision)
        IN  /\ ~call.panic
            /\ call.value =
                 IF ~call.valuesFiles THEN short
                 ELSE IF short = <<>> THEN FormatInt(call.generation)
                 ELSE short \o <<".">> \o FormatInt(call.generation)

\* C33: verifySignature returns no error, on which the source phase marks
\* SourceVerified=True and goes on to pull and store the artifact, only when
\* a signature check succeeded: with the provider cosign, through a public
\* key of the secret or, without a secret, keyless; for another provider
\* nothing is reported as verified.
C33_VerifiedOnlyBySignature ==
    (call.fn = "verifySignature" /\ call.done /\ call.err = "") =>
        /\ call.provider = "cosign"
        /\ call.secretRef =>
            \E k \in DOMAIN call.secret :
                /\ HasSuffix(k, <<".", "p", "u", "b">>)
                /\ call.secret[k] = "signer"
        /\ ~call.secretRef => call.keyless = "signed"

\* C34: the change index enqueues only HelmCharts of the namespace of the
\* updated source: a HelmChart of another namespace whose sourceRef has the
\* kind and name of the source is not enqueued.
C34_EnqueuesSameNamespaceOnly ==
    (call.fn = "requestsForChange" /\ call.done) =>
        \A n \in 1 .. Len(call.reqs) :
            call.charts[call.reqs[n]].namespace = call.repo.namespace

\* C35: a reconciliation of a HelmChart in which the three phases return
\* without an error and the result is Success leaves none of
\* StorageOperationFailed, FetchFailed, BuildFailed and ArtifactOutdated
\* True on the object, also when the artifact phase returns early because
\* the path of the build is the path of the current artifact.
C35_SuccessClearsFailures ==
    (/\ kind = "HelmChart"
     /\ pc = "done"
     /\ exit = "reconcile"
     /\ {"storage", "source", "artifact"} \subseteq ran
     /\ res = ResultSuccess
     /\ resErr = NoErr) =>
        \A t \in {StorageOperationFailed, FetchFailed, BuildFailed,
                  ArtifactOutdated} : ~IsTrue(obj, t)

\* a step of the artifact phase of a HelmChart or OCIRepository
\* reconciliation that returns an error
ArtifactPhaseFailed ==
    /\ pc = "artifact"
    /\ pc' = "loop"
    /\ phaseErr' # NoErr

\* C36: an artifact phase that fails (directory creation, lock, copy or
\* archive) leaves status.artifact, status.url, observedChartName,
\* observedIgnore and observedLayerSelector as they were before the phase,
\* and status.artifact changes in that phase only together with a file
\* written to storage at its path with its checksum.
C36_FailedArtifactPhaseKeepsStatus ==
    [][/\ ArtifactPhaseFailed =>
            /\ obj'.artifact = obj.artifact
            /\ obj'.url = obj.url
            /\ obj'.observedChartName = obj.observedChartName
            /\ obj'.observedIgnore = obj.observedIgnore
            /\ obj'.observedLayerSelector = obj.observedLayerSelector
       /\ (pc = "artifact" /\ obj'.artifact # obj.artifact) =>
            /\ phaseErr' = NoErr
            /\ LocalPath(obj'.artifact) \in Paths(files')
            /\ FileAt(files', LocalPath(obj'.artifact)).sum = obj'.artifact.checksum]_vars

C36_Witness ==
    /\ pc = "loop"
    /\ last = "artifact"
    /\ phaseErr = Generic("ArchiveOperationFailed")
    /\ HasArtifact(obj)
    /\ ~HasRevision(obj, build.version)
    /\ obj.artifact = start.artifact

\* C37: the storage lock taken in the artifact phase is released on every
\* exit of the phase: a lock is held only by a worker between its Lock and
\* its return, so a worker that has left the phase (failed or idle) holds
\* none, and a reconciliation that reaches Lock finds the lock of its
\* artifact free.
C37_LockReleasedOnEveryExit ==
    /\ \A l \in locks :
        /\ wk[l.by].pc \in {"write", "record"}
        /\ l.key = LockKey(wk[l.by].key, NewArtifactFor(wk[l.by].rev))
    /\ \A w \in Workers :
        wk[w].pc = "lock" => ~Held(locks, wk[w].key, NewArtifactFor(wk[w].rev))

C37_Witness ==
    \E v \in Workers, w \in Workers :
        /\ v # w
        /\ wk[v].pc = "failed"
        /\ wk[w].pc = "write"
        /\ locks = {[key |-> LockKey(wk[w].key, NewArtifactFor(wk[w].rev)), by |-> w]}

\* C38: whenever reconcile of the HelmRepository reconciler returns,
\* Ready=True implies that the object has neither Stalled=True nor a
\* Reconciling condition and that the run returned no error.
C38_ReadyImpliesSettled ==
    (kind = "HelmRepository" /\ pc = "summarize" /\ "reconcile" \in ran
        /\ IsReady(obj)) =>
        /\ ~IsStalled(obj)
        /\ ~Has(obj, Reconciling)
        /\ resErr = NoErr

\* C39: for an object whose deletion timestamp is set, under fair
\* re-execution of its reconciliation, the source finalizer is eventually
\* absent from the object and stays absent: once the delete path removed it,
\* no later reconciliation of the still-deleting object adds it back.
C39_FinalizerRemovedForGood == api.deleting ~> [](~api.finalizer)

\* the artifact in the status has the revision and was produced with the
\* ignore rules and the layer selector of the spec
ContentUpToDate(o, rev) ==
    /\ HasRevision(o, rev)
    /\ o.ignore = o.observedIgnore
    /\ o.layerSelector = o.observedLayerSelector

\* C40: in a reconciliation of an OCIRepository whose source phase succeeds,
\* the artifact is pulled unless the upstream revision is the revision of the
\* stored artifact and spec.ignore and spec.layerSelector equal the observed
\* fields; its artifact phase, when it succeeds, archives under the same
\* condition, and after an archive the observed fields equal the spec
\* fields, so that the next run with unchanged inputs pulls and archives
\* nothing.
C40_RepulledOnContentConfigChange ==
    /\ [](kind = "OCIRepository" /\ pc = "loop" /\ last = "source"
            /\ phaseErr = NoErr /\ phaseRes = ResultSuccess
          => ("Pull" \in ran <=> ~ContentUpToDate(obj, build.version)))
    /\ [][kind = "OCIRepository" /\ pc = "artifact" /\ phaseErr' = NoErr
          => /\ wrote' # wrote <=> ~ContentUpToDate(obj, build.version)
             /\ wrote' # wrote => /\ ContentUpToDate(obj', build.version)
                                  /\ "Pull" \in ran]_vars
    /\ [](kind = "OCIRepository" /\ stable /\ pc = "notify"
          => "Pull" \notin ran /\ wrote = {})

C40_Witness ==
    /\ kind = "OCIRepository"
    /\ pc = "notify"
    /\ HasRevision(start, build.version)
    /\ start.layerSelector # start.observedLayerSelector
    /\ start.ignore = start.observedIgnore
    /\ "Pull" \in ran
    /\ wrote # {}
    /\ ContentUpToDate(obj, build.version)

====
